---- MODULE Spec2Model ----
(***************************************************************************)
(* A model of the parametric build logic of paramak:                       *)
(*   - SubmersionTokamak (parametric_reactors/submersion_reactor.py):      *)
(*     constructor, attribute mutation, the validated position setters and *)
(*     create_solids with its radial and vertical build;                   *)
(*   - CenterColumnShieldHyperbola and CenterColumnShieldFlatTopCircular   *)
(*     (parametric_components): setters and find_points.                   *)
(*                                                                         *)
(* Lengths are Python floats in the source.  The model draws them from the *)
(* multiples of 4, on which every division the code performs (/ 2, * 0.5,  *)
(* * 1.5, * 0.75, triangularity in halves) is exact in integers.           *)
(*                                                                         *)
(* A Python attribute that has not been assigned yet is modelled by its    *)
(* absence: the attributes written by one method are one function from     *)
(* attribute names to values, NoAttrs before the method first runs.  An    *)
(* Optional[float] is the empty set (None) or a singleton.                 *)
(***************************************************************************)
EXTENDS Integers, Sequences, FiniteSets, TLC

VARIABLES
    thickness,              \* the twelve *_radial_thickness attributes
    elongation,             \* self.elongation
    triangularity,          \* self.triangularity, in halves
    major_radius,           \* self.major_radius
    minor_radius,           \* self.minor_radius
    optional,               \* the three Optional outboard TF parameters
    number_of_tf_coils,     \* self.number_of_tf_coils
    rotation_angle,         \* self.rotation_angle
    pf,                     \* the four pf_coil_* list parameters
    pf_coil_case_thicknesses, \* self.pf_coil_case_thicknesses
    divertor_position,      \* self._divertor_position
    support_position,       \* self._support_position
    plasma,                 \* self._plasma
    radial,                 \* attributes written by _make_radial_build
    vertical,               \* attributes written by _make_vertical_build
    shapes_and_components,  \* self.shapes_and_components (component names)
    warnings,               \* number of UserWarnings issued so far
    last_call,              \* the operation that ran last and its arguments
    error,                  \* the exception that operation raised, or "none"
    mutations,              \* number of attribute assignments after __init__
    builds,                 \* number of create_solids calls so far
    components,             \* the shapes create_solids has assigned, by attribute
    steps,                  \* the steps of the last create_solids call, in order
    hyperbola,              \* a CenterColumnShieldHyperbola: its attributes
    flat_top,               \* a CenterColumnShieldFlatTopCircular
    pf_coil,                \* a PoloidalFieldCoil
    iter_divertor,          \* an ITERtypeDivertor
    inboard_firstwall,      \* an InboardFirstwallFCCS
    hollow_cube,            \* a HollowCube
    rotate_shape,           \* a RotateMixedShape or a RotateCircleShape
    cylinder_reactor        \* a CylinderReactor

\* the state of the reactor
reactor_state ==
    <<thickness, elongation, triangularity, major_radius, minor_radius,
      optional, number_of_tf_coils, rotation_angle, pf,
      pf_coil_case_thicknesses, divertor_position, support_position, plasma,
      radial, vertical, shapes_and_components, warnings, mutations, builds,
      components, steps>>

vars ==
    <<reactor_state, hyperbola, flat_top, pf_coil, iter_divertor,
      inboard_firstwall, hollow_cube, rotate_shape, cylinder_reactor,
      last_call, error>>

(***************************************************************************)
(* Bounds of the model.                                                    *)
(***************************************************************************)
\* thickness parameters range over the multiples of 4 up to 4 * MaxThick
MaxThick == 2

\* attribute assignments made on a reactor after its construction
MaxMutations == 1

\* create_solids calls made on a reactor
MaxBuilds == 2

\* find_points calls made on an inboard firstwall
MaxFinds == 3

\* shield radii and coil dimensions range over the multiples of 4 up to
\* 4 * MaxRadius
MaxRadius == 2

\* the bits of the significand of the floats of the cylinder reactor (a
\* Python float has 53)
FloatBits == 3

\* lengths are multiples of 4
Length4(i) == 4 * i

\* the lengths the thickness parameters are drawn from
Thick == {Length4(i) : i \in 0..MaxThick}

\* the length of an optional argument that is given
BaseThick == Length4(1)

NoAttrs == [n \in {} |-> 0]

None == {}

Some(v) == {v}

Value(opt) == CHOOSE v \in opt : TRUE

\* a call: the operation and the arguments it was given
Call(op, args) == [op |-> op, args |-> args]

(***************************************************************************)
(* SubmersionTokamak: parameters.                                          *)
(***************************************************************************)
ThicknessNames ==
    {"inner_bore_radial_thickness",
     "inboard_tf_leg_radial_thickness",
     "center_column_shield_radial_thickness",
     "inboard_blanket_radial_thickness",
     "firstwall_radial_thickness",
     "inner_plasma_gap_radial_thickness",
     "plasma_radial_thickness",
     "divertor_radial_thickness",
     "support_radial_thickness",
     "outer_plasma_gap_radial_thickness",
     "outboard_blanket_radial_thickness",
     "blanket_rear_wall_radial_thickness"}

OptionalNames ==
    {"outboard_tf_coil_radial_thickness",
     "rear_blanket_to_tf_gap",
     "outboard_tf_coil_poloidal_thickness"}

PfNames ==
    {"pf_coil_vertical_thicknesses",
     "pf_coil_radial_thicknesses",
     "pf_coil_radial_position",
     "pf_coil_vertical_position"}

\* the pf_coil_* parameters whose setter checks the type of the value
ValidatedPfNames == PfNames \ {"pf_coil_vertical_position"}

\* a pf_coil_* value: None, a list of floats, or a float
NonePf == [kind |-> "None"]

ListPf(items) == [kind |-> "list", items |-> items]

FloatPf(value) == [kind |-> "float", value |-> value]

PfInputs == {NonePf, ListPf(<<Length4(1)>>), FloatPf(Length4(1))}

DefaultPfCoilCaseThicknesses == 10

acceptable_values == {"upper", "lower", "both"}

\* the values a caller may try to store in a position attribute
PositionInputs == acceptable_values \cup {"middle", ""}

Elongations == {2}

\* triangularity in halves: 0 and 0.5
Triangularities == {0, 1}

RotationAngles == {180, 360}

TfCoilNumbers == {1, 16}

\* the constructor's thickness arguments: the same length for all twelve
\* (assignments after construction make them differ)
ConstructorArgs == { [n \in ThicknessNames |-> BaseThick] }

\* the optional TF arguments: all left at None, or all given
OptionalArgs ==
    { [n \in OptionalNames |-> None], [n \in OptionalNames |-> Some(BaseThick)] }

\* the pf_coil_* arguments: all left at None, or all given as lists
PfArgs ==
    { [n \in PfNames |-> NonePf], [n \in PfNames |-> ListPf(<<BaseThick>>)] }

(***************************************************************************)
(* paramak.Plasma: high_point of a plasma of the given shape.              *)
(***************************************************************************)
Plasma(major, minor, elong, triang) ==
    [ major_radius |-> major,
      minor_radius |-> minor,
      high_point |-> << major - (triang * minor) \div 2, elong * minor >> ]

\* SubmersionTokamak._make_plasma: the plasma of the stored major and minor
\* radius
_make_plasma(major, minor, elong, triang) ==
    Plasma(major, minor, elong, triang)

(***************************************************************************)
(* SubmersionTokamak.__init__                                              *)
(***************************************************************************)
inner_equatorial_point(args) ==
      args["inner_bore_radial_thickness"]
    + args["inboard_tf_leg_radial_thickness"]
    + args["center_column_shield_radial_thickness"]
    + args["inboard_blanket_radial_thickness"]
    + args["firstwall_radial_thickness"]
    + args["inner_plasma_gap_radial_thickness"]

outer_equatorial_point(args) ==
    inner_equatorial_point(args) + args["plasma_radial_thickness"]

InitMajorRadius(args) ==
    (outer_equatorial_point(args) + inner_equatorial_point(args)) \div 2

InitMinorRadius(args) ==
    InitMajorRadius(args) - inner_equatorial_point(args)

ReactorInit ==
    /\ thickness \in ConstructorArgs
    /\ elongation \in Elongations
    /\ triangularity \in Triangularities
    /\ major_radius = InitMajorRadius(thickness)
    /\ minor_radius = InitMinorRadius(thickness)
    /\ optional \in OptionalArgs
    /\ number_of_tf_coils = 16
    /\ rotation_angle = 360
    /\ pf \in PfArgs
    /\ pf_coil_case_thicknesses = Some(DefaultPfCoilCaseThicknesses)
    /\ divertor_position = "both"
    /\ support_position = "both"
    /\ plasma = NoAttrs
    /\ radial = NoAttrs
    /\ vertical = NoAttrs
    /\ shapes_and_components = << >>
    /\ warnings = 0
    /\ last_call = Call("__init__", << >>)
    /\ error = "none"
    /\ mutations = 0
    /\ builds = 0
    /\ components = NoAttrs
    /\ steps = << >>

(***************************************************************************)
(* Attribute assignment after construction.  The thickness attributes, the *)
(* optional TF parameters, number_of_tf_coils, rotation_angle and          *)
(* pf_coil_case_thicknesses are plain attributes: assigning them stores    *)
(* the value and nothing else (major_radius and minor_radius are not       *)
(* recomputed).                                                            *)
(***************************************************************************)
Mutated(op, args) ==
    /\ mutations < MaxMutations
    /\ mutations' = mutations + 1
    /\ last_call' = Call(op, args)
    /\ UNCHANGED builds

set_thickness(name, value) ==
    /\ Mutated("set_thickness", <<name, value>>)
    /\ thickness' = [thickness EXCEPT ![name] = value]
    /\ error' = "none"
    /\ UNCHANGED <<elongation, triangularity, major_radius, minor_radius,
                   optional, number_of_tf_coils, rotation_angle,
                   divertor_position, support_position, plasma, radial,
                   vertical, shapes_and_components, warnings,
                   pf, pf_coil_case_thicknesses,
                   components, steps,
                   hyperbola, flat_top, pf_coil, iter_divertor,
                   inboard_firstwall,
                   hollow_cube, rotate_shape, cylinder_reactor>>

set_optional(name, value) ==
    /\ Mutated("set_optional", <<name, value>>)
    /\ optional' = [optional EXCEPT ![name] = value]
    /\ error' = "none"
    /\ UNCHANGED <<thickness, elongation, triangularity, major_radius,
                   minor_radius, number_of_tf_coils, rotation_angle,
                   divertor_position, support_position, plasma, radial,
                   vertical, shapes_and_components, warnings,
                   pf, pf_coil_case_thicknesses,
                   components, steps,
                   hyperbola, flat_top, pf_coil, iter_divertor,
                   inboard_firstwall,
                   hollow_cube, rotate_shape, cylinder_reactor>>

set_number_of_tf_coils(value) ==
    /\ Mutated("set_number_of_tf_coils", <<value>>)
    /\ number_of_tf_coils' = value
    /\ error' = "none"
    /\ UNCHANGED <<thickness, elongation, triangularity, major_radius,
                   minor_radius, optional, rotation_angle,
                   divertor_position, support_position, plasma, radial,
                   vertical, shapes_and_components, warnings,
                   pf, pf_coil_case_thicknesses,
                   components, steps,
                   hyperbola, flat_top, pf_coil, iter_divertor,
                   inboard_firstwall,
                   hollow_cube, rotate_shape, cylinder_reactor>>

set_rotation_angle(value) ==
    /\ Mutated("set_rotation_angle", <<value>>)
    /\ rotation_angle' = value
    /\ error' = "none"
    /\ UNCHANGED <<thickness, elongation, triangularity, major_radius,
                   minor_radius, optional, number_of_tf_coils,
                   divertor_position, support_position, plasma, radial,
                   vertical, shapes_and_components, warnings,
                   pf, pf_coil_case_thicknesses,
                   components, steps,
                   hyperbola, flat_top, pf_coil, iter_divertor,
                   inboard_firstwall,
                   hollow_cube, rotate_shape, cylinder_reactor>>

set_pf_coil_case_thicknesses(value) ==
    /\ Mutated("set_pf_coil_case_thicknesses", <<value>>)
    /\ pf_coil_case_thicknesses' = value
    /\ error' = "none"
    /\ UNCHANGED <<thickness, elongation, triangularity, major_radius,
                   minor_radius, optional, number_of_tf_coils,
                   rotation_angle, pf, divertor_position, support_position,
                   plasma, radial, vertical, shapes_and_components,
                   warnings,
                   components, steps,
                   hyperbola, flat_top, pf_coil, iter_divertor,
                   inboard_firstwall,
                   hollow_cube, rotate_shape, cylinder_reactor>>

\* pf_coil_vertical_position has no property: any list or None is stored
set_pf_coil_vertical_position(value) ==
    /\ Mutated("set_pf_coil_vertical_position", <<value>>)
    /\ pf' = [pf EXCEPT !["pf_coil_vertical_position"] = value]
    /\ error' = "none"
    /\ UNCHANGED <<thickness, elongation, triangularity, major_radius,
                   minor_radius, optional, number_of_tf_coils,
                   rotation_angle, pf_coil_case_thicknesses,
                   divertor_position, support_position, plasma, radial,
                   vertical, shapes_and_components, warnings,
                   components, steps,
                   hyperbola, flat_top, pf_coil, iter_divertor,
                   inboard_firstwall,
                   hollow_cube, rotate_shape, cylinder_reactor>>

(***************************************************************************)
(* The setters of pf_coil_radial_position, pf_coil_radial_thicknesses and  *)
(* pf_coil_vertical_thicknesses: a list or None, or ValueError.            *)
(***************************************************************************)
pf_coil_setter(name, value) ==
    /\ Mutated(name, <<value>>)
    /\ IF value.kind # "list" /\ value # NonePf
         THEN /\ error' = "ValueError"
              /\ pf' = pf
         ELSE /\ error' = "none"
              /\ pf' = [pf EXCEPT ![name] = value]
    /\ UNCHANGED <<thickness, elongation, triangularity, major_radius,
                   minor_radius, optional, number_of_tf_coils,
                   rotation_angle, pf_coil_case_thicknesses,
                   divertor_position, support_position, plasma, radial,
                   vertical, shapes_and_components, warnings,
                   components, steps,
                   hyperbola, flat_top, pf_coil, iter_divertor,
                   inboard_firstwall,
                   hollow_cube, rotate_shape, cylinder_reactor>>

(***************************************************************************)
(* The validated setters of divertor_position and support_position.        *)
(***************************************************************************)
\* faulty variant: the value is stored before it is checked
divertor_position_setter_unchecked(value) ==
    /\ Mutated("divertor_position", <<value>>)
    /\ divertor_position' = value
    /\ error' = IF value \in acceptable_values THEN "none" ELSE "ValueError"
    /\ UNCHANGED <<thickness, elongation, triangularity, major_radius,
                   minor_radius, optional, number_of_tf_coils,
                   rotation_angle, support_position, plasma, radial,
                   vertical, shapes_and_components, warnings,
                   pf, pf_coil_case_thicknesses,
                   components, steps,
                   hyperbola, flat_top, pf_coil, iter_divertor,
                   inboard_firstwall,
                   hollow_cube, rotate_shape, cylinder_reactor>>

divertor_position_setter(value) ==
    /\ Mutated("divertor_position", <<value>>)
    /\ IF value \in acceptable_values
         THEN /\ divertor_position' = value
              /\ error' = "none"
         ELSE /\ divertor_position' = divertor_position
              /\ error' = "ValueError"
    /\ UNCHANGED <<thickness, elongation, triangularity, major_radius,
                   minor_radius, optional, number_of_tf_coils,
                   rotation_angle, support_position, plasma, radial,
                   vertical, shapes_and_components, warnings,
                   pf, pf_coil_case_thicknesses,
                   components, steps,
                   hyperbola, flat_top, pf_coil, iter_divertor,
                   inboard_firstwall,
                   hollow_cube, rotate_shape, cylinder_reactor>>

support_position_setter(value) ==
    /\ Mutated("support_position", <<value>>)
    /\ IF value \in acceptable_values
         THEN /\ support_position' = value
              /\ error' = "none"
         ELSE /\ support_position' = support_position
              /\ error' = "ValueError"
    /\ UNCHANGED <<thickness, elongation, triangularity, major_radius,
                   minor_radius, optional, number_of_tf_coils,
                   rotation_angle, divertor_position, plasma, radial,
                   vertical, shapes_and_components, warnings,
                   pf, pf_coil_case_thicknesses,
                   components, steps,
                   hyperbola, flat_top, pf_coil, iter_divertor,
                   inboard_firstwall,
                   hollow_cube, rotate_shape, cylinder_reactor>>

(***************************************************************************)
(* SubmersionTokamak._make_radial_build: the attributes it assigns, given  *)
(* the thickness attributes th, the optional TF parameters opt and the     *)
(* plasma pl.  Attributes it does not assign keep their value in old.      *)
(***************************************************************************)
\* the main chain, from the inner bore to the blanket rear wall
radial_chain(th) ==
    LET inner_bore_start == 0
        inner_bore_end ==
            inner_bore_start + th["inner_bore_radial_thickness"]
        inboard_tf_coils_start == inner_bore_end
        inboard_tf_coils_end ==
            inboard_tf_coils_start + th["inboard_tf_leg_radial_thickness"]
        center_column_shield_start == inboard_tf_coils_end
        center_column_shield_end ==
            center_column_shield_start
                + th["center_column_shield_radial_thickness"]
        inboard_blanket_start == center_column_shield_end
        inboard_blanket_end ==
            inboard_blanket_start + th["inboard_blanket_radial_thickness"]
        inboard_firstwall_start == inboard_blanket_end
        inboard_firstwall_end ==
            inboard_firstwall_start + th["firstwall_radial_thickness"]
        inner_plasma_gap_start == inboard_firstwall_end
        inner_plasma_gap_end ==
            inner_plasma_gap_start + th["inner_plasma_gap_radial_thickness"]
        plasma_start == inner_plasma_gap_end
        plasma_end == plasma_start + th["plasma_radial_thickness"]
        outer_plasma_gap_start == plasma_end
        outer_plasma_gap_end ==
            outer_plasma_gap_start + th["outer_plasma_gap_radial_thickness"]
        outboard_firstwall_start == outer_plasma_gap_end
        outboard_firstwall_end ==
            outboard_firstwall_start + th["firstwall_radial_thickness"]
        outboard_blanket_start == outboard_firstwall_end
        outboard_blanket_end ==
            outboard_blanket_start + th["outboard_blanket_radial_thickness"]
        blanket_rear_wall_start == outboard_blanket_end
        blanket_rear_wall_end ==
            blanket_rear_wall_start + th["blanket_rear_wall_radial_thickness"]
    IN
    [ _inner_bore_start_radius |-> inner_bore_start,
      _inner_bore_end_radius |-> inner_bore_end,
      _inboard_tf_coils_start_radius |-> inboard_tf_coils_start,
      _inboard_tf_coils_end_radius |-> inboard_tf_coils_end,
      _center_column_shield_start_radius |->
          center_column_shield_start,
      _center_column_shield_end_radius |-> center_column_shield_end,
      _inboard_blanket_start_radius |-> inboard_blanket_start,
      _inboard_blanket_end_radius |-> inboard_blanket_end,
      _inboard_firstwall_start_radius |-> inboard_firstwall_start,
      _inboard_firstwall_end_radius |-> inboard_firstwall_end,
      _inner_plasma_gap_start_radius |-> inner_plasma_gap_start,
      _inner_plasma_gap_end_radius |-> inner_plasma_gap_end,
      _plasma_start_radius |-> plasma_start,
      _plasma_end_radius |-> plasma_end,
      _outer_plasma_gap_start_radius |-> outer_plasma_gap_start,
      _outer_plasma_gap_end_radius |-> outer_plasma_gap_end,
      _outboard_firstwall_start_radius |-> outboard_firstwall_start,
      _outboard_firstwall_end_radius |-> outboard_firstwall_end,
      _outboard_blanket_start_radius |-> outboard_blanket_start,
      _outboard_blanket_end_radius |-> outboard_blanket_end,
      _blanket_rear_wall_start_radius |-> blanket_rear_wall_start,
      _blanket_rear_wall_end_radius |-> blanket_rear_wall_end ]

\* the outboard TF coil, present when its three parameters are given
tf_info_provided(opt) ==
    /\ opt["outboard_tf_coil_radial_thickness"] # None
    /\ opt["rear_blanket_to_tf_gap"] # None
    /\ opt["outboard_tf_coil_poloidal_thickness"] # None

radial_tf(opt, chain) ==
    IF tf_info_provided(opt)
      THEN LET outboard_tf_coil_start ==
                   chain._blanket_rear_wall_end_radius
                       + Value(opt["rear_blanket_to_tf_gap"])
               outboard_tf_coil_end ==
                   outboard_tf_coil_start
                       + Value(opt["outboard_tf_coil_radial_thickness"])
           IN  [ _tf_info_provided |-> TRUE,
                 _outboard_tf_coil_start_radius |-> outboard_tf_coil_start,
                 _outboard_tf_coil_end_radius |-> outboard_tf_coil_end ]
      ELSE [ _tf_info_provided |-> FALSE ]

\* the divertor and the supports, on the plasma high point
radial_bands(th, pl) ==
    [ _divertor_start_radius |->
          pl.high_point[1] - th["divertor_radial_thickness"] \div 2,
      _divertor_end_radius |->
          pl.high_point[1] + th["divertor_radial_thickness"] \div 2,
      _support_start_radius |->
          pl.high_point[1] - th["support_radial_thickness"] \div 2,
      _support_end_radius |->
          pl.high_point[1] + th["support_radial_thickness"] \div 2 ]

\* faulty variant: the outboard firstwall starts where the plasma ends, the
\* outer plasma gap forgotten
_make_radial_build_gap_skipped(th, opt, pl, old) ==
    [radial_chain(th) EXCEPT
         !._outboard_firstwall_start_radius = radial_chain(th)._plasma_end_radius]
        @@ radial_tf(opt, radial_chain(th)) @@ radial_bands(th, pl) @@ old

\* faulty variant: the blanket rear wall is given the outboard blanket's
\* thickness
_make_radial_build_wrong_thickness(th, opt, pl, old) ==
    LET chain ==
            [radial_chain(th) EXCEPT
                 !._blanket_rear_wall_end_radius =
                     radial_chain(th)._blanket_rear_wall_start_radius
                         + th["outboard_blanket_radial_thickness"]]
    IN  chain @@ radial_tf(opt, chain) @@ radial_bands(th, pl) @@ old

\* faulty variant: the outboard TF coil is placed from the start of the
\* blanket rear wall instead of its end
_make_radial_build_tf_on_wall_start(th, opt, pl, old) ==
    LET chain == radial_chain(th)
    IN  chain
            @@ radial_tf(opt, [chain EXCEPT
                   !._blanket_rear_wall_end_radius =
                       chain._blanket_rear_wall_start_radius])
            @@ radial_bands(th, pl) @@ old

\* faulty variant: the divertor and the supports continue the cursor walk
\* after the blanket rear wall
_make_radial_build_bands_on_cursor(th, opt, pl, old) ==
    LET chain == radial_chain(th)
        cursor == chain._blanket_rear_wall_end_radius
    IN  chain @@ radial_tf(opt, chain)
            @@ [ _divertor_start_radius |-> cursor,
                 _divertor_end_radius |->
                     cursor + th["divertor_radial_thickness"],
                 _support_start_radius |->
                     cursor + th["divertor_radial_thickness"],
                 _support_end_radius |->
                     cursor + th["divertor_radial_thickness"]
                         + th["support_radial_thickness"] ]
            @@ old

_make_radial_build(th, opt, pl, old) ==
    radial_chain(th) @@ radial_tf(opt, radial_chain(th))
        @@ radial_bands(th, pl) @@ old

(***************************************************************************)
(* SubmersionTokamak._make_vertical_build, given the attributes rad that   *)
(* _make_radial_build has assigned.                                        *)
(***************************************************************************)
\* faulty variant: the firstwall starts where the plasma-to-divertor gap
\* starts
_make_vertical_build_gap_skipped(th, pl, rad, old) ==
    LET plasma_start == 0
        plasma_end == pl.high_point[2]
        plasma_to_divertor_gap_start == plasma_end
        plasma_to_divertor_gap_end ==
            plasma_to_divertor_gap_start
                + th["outer_plasma_gap_radial_thickness"]
        firstwall_start == plasma_to_divertor_gap_start
        firstwall_end == firstwall_start + th["firstwall_radial_thickness"]
        blanket_start == firstwall_end
        blanket_end ==
            blanket_start + th["outboard_blanket_radial_thickness"]
        blanket_rear_wall_start == blanket_end
        blanket_rear_wall_end ==
            blanket_rear_wall_start + th["blanket_rear_wall_radial_thickness"]
        chain ==
            [ _plasma_start_height |-> plasma_start,
              _plasma_end_height |-> plasma_end,
              _plasma_to_divertor_gap_start_height |->
                  plasma_to_divertor_gap_start,
              _plasma_to_divertor_gap_end_height |->
                  plasma_to_divertor_gap_end,
              _firstwall_start_height |-> firstwall_start,
              _firstwall_end_height |-> firstwall_end,
              _blanket_start_height |-> blanket_start,
              _blanket_end_height |-> blanket_end,
              _blanket_rear_wall_start_height |-> blanket_rear_wall_start,
              _blanket_rear_wall_end_height |-> blanket_rear_wall_end ]
        tf ==
            IF rad._tf_info_provided
              THEN [ _outboard_tf_coils_vertical_height |->
                         (blanket_rear_wall_end * 3) \div 2,
                     _outboard_tf_coils_horizontal_length |->
                         (rad._blanket_rear_wall_end_radius * 3) \div 4 ]
              ELSE NoAttrs
    IN  chain @@ tf @@ old

_make_vertical_build(th, pl, rad, old) ==
    LET plasma_start == 0
        plasma_end == pl.high_point[2]
        plasma_to_divertor_gap_start == plasma_end
        plasma_to_divertor_gap_end ==
            plasma_to_divertor_gap_start
                + th["outer_plasma_gap_radial_thickness"]
        firstwall_start == plasma_to_divertor_gap_end
        firstwall_end == firstwall_start + th["firstwall_radial_thickness"]
        blanket_start == firstwall_end
        blanket_end ==
            blanket_start + th["outboard_blanket_radial_thickness"]
        blanket_rear_wall_start == blanket_end
        blanket_rear_wall_end ==
            blanket_rear_wall_start + th["blanket_rear_wall_radial_thickness"]
        chain ==
            [ _plasma_start_height |-> plasma_start,
              _plasma_end_height |-> plasma_end,
              _plasma_to_divertor_gap_start_height |->
                  plasma_to_divertor_gap_start,
              _plasma_to_divertor_gap_end_height |->
                  plasma_to_divertor_gap_end,
              _firstwall_start_height |-> firstwall_start,
              _firstwall_end_height |-> firstwall_end,
              _blanket_start_height |-> blanket_start,
              _blanket_end_height |-> blanket_end,
              _blanket_rear_wall_start_height |-> blanket_rear_wall_start,
              _blanket_rear_wall_end_height |-> blanket_rear_wall_end ]
        tf ==
            IF rad._tf_info_provided
              THEN [ _outboard_tf_coils_vertical_height |->
                         (blanket_rear_wall_end * 3) \div 2,
                     _outboard_tf_coils_horizontal_length |->
                         (rad._blanket_rear_wall_end_radius * 3) \div 4 ]
              ELSE NoAttrs
    IN  chain @@ tf @@ old

(***************************************************************************)
(* The components create_solids collects, by name, in order.               *)
(***************************************************************************)
\* faulty variant: the outboard coil is made whatever number_of_tf_coils is
_make_tf_coils_any_number(opt, ntf, rad) ==
    <<"inboard_tf_coils">>
        \o (IF /\ opt["rear_blanket_to_tf_gap"] # None
               /\ opt["outboard_tf_coil_radial_thickness"] # None
               /\ opt["outboard_tf_coil_poloidal_thickness"] # None
               /\ rad._tf_info_provided
              THEN <<"tf_coil">>
              ELSE << >>)

_make_tf_coils(opt, ntf, rad) ==
    <<"inboard_tf_coils">>
        \o (IF /\ opt["rear_blanket_to_tf_gap"] # None
               /\ opt["outboard_tf_coil_radial_thickness"] # None
               /\ opt["outboard_tf_coil_poloidal_thickness"] # None
               /\ ntf > 1
               /\ rad._tf_info_provided
              THEN <<"tf_coil">>
              ELSE << >>)

uncut_shapes(opt, ntf, rad) ==
    << "plasma", "center_column_shield", "outboard_firstwall", "blanket",
       "divertor", "supports", "outboard_rear_blanket_wall" >>
        \o _make_tf_coils(opt, ntf, rad)

\* _make_pf_coils: None (here the empty set) when a parameter is missing
_make_pf_coils(pfs, case) ==
    IF \A n \in PfNames : pfs[n] # NonePf
      THEN Some(<<"pf_coil">>
                  \o (IF case # None THEN <<"pf_coil_case">> ELSE << >>))
      ELSE None

(***************************************************************************)
(* SubmersionTokamak._rotation_angle_check: the warnings it issues.        *)
(***************************************************************************)
\* faulty variant: the warning is issued whatever the angle
_rotation_angle_check_always(angle) ==
    << "360 degree rotation may result"
           \o " in a Standard_ConstructionError or AttributeError" >>

_rotation_angle_check(angle) ==
    IF angle = 360
      THEN << "360 degree rotation may result"
                  \o " in a Standard_ConstructionError or AttributeError" >>
      ELSE << >>

(***************************************************************************)
(* The shapes create_solids builds for the divertor and the supports: the  *)
(* points of the band, which is then intersected with an envelope.         *)
(***************************************************************************)
\* faulty variant: upper and lower are taken for each other
_make_divertor_flipped(position, rad, ver) ==
    LET divertor_height == ver._blanket_rear_wall_end_height
        divertor_height_top ==
            IF position = "upper" THEN 0 ELSE divertor_height
        divertor_height_bottom ==
            IF position = "lower" THEN 0 ELSE -divertor_height
    IN  [ name |-> "divertor",
          points |->
              << <<rad._divertor_start_radius, divertor_height_bottom>>,
                 <<rad._divertor_end_radius, divertor_height_bottom>>,
                 <<rad._divertor_end_radius, divertor_height_top>>,
                 <<rad._divertor_start_radius, divertor_height_top>> >>,
          intersect |-> "fw_envelope" ]

_make_divertor(position, rad, ver) ==
    LET divertor_height == ver._blanket_rear_wall_end_height
        divertor_height_top ==
            IF position = "lower" THEN 0 ELSE divertor_height
        divertor_height_bottom ==
            IF position = "lower" THEN -divertor_height
            ELSE IF position = "upper" THEN 0
            ELSE -divertor_height
    IN  [ name |-> "divertor",
          points |->
              << <<rad._divertor_start_radius, divertor_height_bottom>>,
                 <<rad._divertor_end_radius, divertor_height_bottom>>,
                 <<rad._divertor_end_radius, divertor_height_top>>,
                 <<rad._divertor_start_radius, divertor_height_top>> >>,
          intersect |-> "fw_envelope" ]

_make_supports(position, rad, ver) ==
    LET support_height == ver._blanket_rear_wall_end_height
        support_height_top ==
            IF position = "lower" THEN 0 ELSE support_height
        support_height_bottom ==
            IF position = "lower" THEN -support_height
            ELSE IF position = "upper" THEN 0
            ELSE -support_height
    IN  [ name |-> "supports",
          points |->
              << <<rad._support_start_radius, support_height_bottom>>,
                 <<rad._support_end_radius, support_height_bottom>>,
                 <<rad._support_end_radius, support_height_top>>,
                 <<rad._support_start_radius, support_height_top>> >>,
          intersect |-> "blanket_envelope" ]

(***************************************************************************)
(* The steps of create_solids.  A step is a method call: the build values  *)
(* and sibling components (the underscore attributes) it reads, those it   *)
(* assigns, and what it does in order: warnings, shapes constructed with   *)
(* the union, cut and intersect they are given, cuts registered on a       *)
(* sibling and cuts made on a sibling's solid.                             *)
(***************************************************************************)
Step(name, reads, assigns, events) ==
    [name |-> name, reads |-> reads, assigns |-> assigns, events |-> events]

Warn(message) == [event |-> "warn", message |-> message]

\* a shape constructed and bound to target, with the siblings it is given as
\* union, cut and intersect
Construct(target, union, cut, intersect) ==
    [ event |-> "construct", shape |-> target, union |-> union, cut |-> cut,
      intersect |-> intersect ]

\* shape.cut = tool
SetCut(target, tool) == [event |-> "set_cut", shape |-> target, cut |-> tool]

\* shape.solid = shape.solid.cut(tool.solid)
SolidCut(target, tool) ==
    [event |-> "solid_cut", shape |-> target, cut |-> tool]

\* a reactor's parameters, as the methods read them from self
Self ==
    [ thickness |-> thickness,
      optional |-> optional,
      number_of_tf_coils |-> number_of_tf_coils,
      rotation_angle |-> rotation_angle,
      pf |-> pf,
      pf_coil_case_thicknesses |-> pf_coil_case_thicknesses,
      divertor_position |-> divertor_position,
      support_position |-> support_position ]

rotation_angle_check_step(self) ==
    Step("_rotation_angle_check", {}, {},
         [i \in 1..Len(_rotation_angle_check(self.rotation_angle)) |->
              Warn(_rotation_angle_check(self.rotation_angle)[i])])

make_plasma_step ==
    Step("_make_plasma", {}, {"_plasma"},
         << Construct("_plasma", {}, {}, {}) >>)

make_radial_build_step(self, pl) ==
    Step("_make_radial_build", {"_plasma"},
         DOMAIN _make_radial_build(self.thickness, self.optional, pl, NoAttrs),
         << >>)

make_vertical_build_step(self, pl, rad) ==
    Step("_make_vertical_build",
         {"_plasma", "_tf_info_provided"}
             \cup (IF rad._tf_info_provided
                     THEN {"_blanket_rear_wall_end_radius"} ELSE {}),
         DOMAIN _make_vertical_build(self.thickness, pl, rad, NoAttrs),
         << >>)

make_center_column_shield_step ==
    Step("_make_center_column_shield",
         {"_blanket_rear_wall_end_height",
          "_center_column_shield_start_radius",
          "_center_column_shield_end_radius"},
         {"_center_column_shield"},
         << Construct("_center_column_shield", {}, {}, {}) >>)

make_firstwall_step ==
    Step("_make_firstwall", {"_plasma"},
         {"_inboard_firstwall", "_firstwall"},
         << Construct("_inboard_firstwall", {}, {}, {}),
            Construct("_firstwall", {"_inboard_firstwall"}, {}, {}) >>)

make_blanket_step ==
    Step("_make_blanket",
         {"_blanket_end_height", "_inboard_blanket_start_radius",
          "_inboard_firstwall", "_plasma"},
         {"_inboard_blanket", "_blanket"},
         << Construct("_inboard_blanket", {}, {"_inboard_firstwall"}, {}),
            Construct("_blanket", {"_inboard_blanket"}, {}, {}) >>)

make_divertor_step ==
    Step("_make_divertor",
         {"_plasma", "_blanket_rear_wall_end_height",
          "_divertor_start_radius", "_divertor_end_radius", "_firstwall",
          "_inboard_firstwall"},
         {"_divertor"},
         << Construct("fw_envelope_inboard", {}, {}, {}),
            Construct("fw_envelope", {"fw_envelope_inboard"}, {}, {}),
            Construct("_divertor", {}, {}, {"fw_envelope"}),
            SetCut("_firstwall", "_divertor"),
            SetCut("_inboard_firstwall", "_divertor") >>)

make_supports_step ==
    Step("_make_supports",
         {"_plasma", "_inboard_blanket", "_blanket_rear_wall_end_height",
          "_support_start_radius", "_support_end_radius", "_blanket"},
         {"_supports"},
         << Construct("blanket_envelope", {"_inboard_blanket"}, {}, {}),
            Construct("_supports", {}, {}, {"blanket_envelope"}),
            SolidCut("_blanket", "_supports") >>)

make_rear_blanket_wall_step ==
    Step("_make_rear_blanket_wall",
         {"_center_column_shield_end_radius",
          "_blanket_rear_wall_start_height", "_blanket_rear_wall_end_height",
          "_inboard_firstwall", "_plasma"},
         {"_outboard_rear_blanket_wall_upper",
          "_outboard_rear_blanket_wall_lower", "_outboard_rear_blanket_wall"},
         << Construct("_outboard_rear_blanket_wall_upper", {}, {}, {}),
            Construct("_outboard_rear_blanket_wall_lower", {}, {}, {}),
            Construct("_outboard_rear_blanket_wall",
                      {"_outboard_rear_blanket_wall_upper",
                       "_outboard_rear_blanket_wall_lower"}, {}, {}) >>)

\* the outboard coil is made when _make_tf_coils returns more than the
\* inboard coils; its parameters are then read
make_tf_coils_step(self, rad) ==
    LET asked == /\ self.optional["rear_blanket_to_tf_gap"] # None
                 /\ self.optional["outboard_tf_coil_radial_thickness"] # None
                 /\ self.optional["outboard_tf_coil_poloidal_thickness"]
                        # None
                 /\ self.number_of_tf_coils > 1
        made == Len(_make_tf_coils(self.optional, self.number_of_tf_coils,
                                   rad)) > 1
    IN  Step("_make_tf_coils",
             {"_blanket_rear_wall_end_height",
              "_inboard_tf_coils_start_radius",
              "_inboard_tf_coils_end_radius"}
                 \cup (IF asked THEN {"_tf_info_provided"} ELSE {})
                 \cup (IF made
                         THEN {"_outboard_tf_coil_start_radius",
                               "_outboard_tf_coils_horizontal_length",
                               "_outboard_tf_coils_vertical_height"}
                         ELSE {}),
             {"_inboard_tf_coils"}
                 \cup (IF made THEN {"_tf_coil"} ELSE {}),
             << Construct("_inboard_tf_coils", {}, {}, {}) >>
                 \o (IF made THEN << Construct("_tf_coil", {}, {}, {}) >>
                             ELSE << >>))

make_pf_coils_step(self) ==
    LET pf_coils == _make_pf_coils(self.pf, self.pf_coil_case_thicknesses)
    IN  IF pf_coils = None
          THEN Step("_make_pf_coils", {}, {}, << >>)
          ELSE IF Len(Value(pf_coils)) = 1
          THEN Step("_make_pf_coils", {}, {"_pf_coils", "_pf_coil"},
                    << Construct("_pf_coil", {}, {}, {}) >>)
          ELSE Step("_make_pf_coils", {},
                    {"_pf_coils", "_pf_coil", "_pf_coils_casing"},
                    << Construct("_pf_coil", {}, {}, {}),
                       Construct("_pf_coils_casing", {}, {}, {}) >>)

\* the attribute that holds the component of a name
AttributeOf(name) ==
    CASE name = "outboard_firstwall" -> "_firstwall"
      [] name = "pf_coil_case" -> "_pf_coils_casing"
      [] OTHER -> "_" \o name

\* faulty variant: the shapes are cut by the first pf coil component only
cut_pf_coils_step_first_coil_only(self, rad) ==
    LET pf_coils == _make_pf_coils(self.pf, self.pf_coil_case_thicknesses)
        uncut == uncut_shapes(self.optional, self.number_of_tf_coils, rad)
        n == IF pf_coils = None THEN 0 ELSE Len(Value(pf_coils))
    IN  Step("create_solids",
             IF n = 0 THEN {}
             ELSE { AttributeOf(uncut[i]) : i \in 1..Len(uncut) }
                      \cup { AttributeOf(Value(pf_coils)[i]) : i \in 1..n },
             {"shapes_and_components"},
             [i \in 1..(IF n = 0 THEN 0 ELSE Len(uncut)) |->
                  SolidCut(AttributeOf(uncut[i]),
                           AttributeOf(Value(pf_coils)[1]))])

\* the loop that closes create_solids: every pf coil is cut from the solid of
\* every uncut shape, in the order of the two lists
cut_pf_coils_step(self, rad) ==
    LET pf_coils == _make_pf_coils(self.pf, self.pf_coil_case_thicknesses)
        uncut == uncut_shapes(self.optional, self.number_of_tf_coils, rad)
        n == IF pf_coils = None THEN 0 ELSE Len(Value(pf_coils))
    IN  Step("create_solids",
             IF n = 0 THEN {}
             ELSE { AttributeOf(uncut[i]) : i \in 1..Len(uncut) }
                      \cup { AttributeOf(Value(pf_coils)[i]) : i \in 1..n },
             {"shapes_and_components"},
             [i \in 1..(Len(uncut) * n) |->
                  SolidCut(AttributeOf(uncut[((i - 1) \div n) + 1]),
                           AttributeOf(Value(pf_coils)[((i - 1) % n) + 1]))])

\* faulty variant: the supports are made before the blanket, and the
\* divertor before the firstwall
create_solids_steps_bands_first(self, pl, rad, ver) ==
    << rotation_angle_check_step(self),
       make_plasma_step,
       make_radial_build_step(self, pl),
       make_vertical_build_step(self, pl, rad),
       make_center_column_shield_step,
       make_divertor_step,
       make_supports_step,
       make_firstwall_step,
       make_blanket_step,
       make_rear_blanket_wall_step,
       make_tf_coils_step(self, rad),
       make_pf_coils_step(self),
       cut_pf_coils_step(self, rad) >>

\* faulty variant: the center column shield is made between the radial and
\* the vertical build
create_solids_steps_shield_early(self, pl, rad, ver) ==
    << rotation_angle_check_step(self),
       make_plasma_step,
       make_radial_build_step(self, pl),
       make_center_column_shield_step,
       make_vertical_build_step(self, pl, rad),
       make_firstwall_step,
       make_blanket_step,
       make_divertor_step,
       make_supports_step,
       make_rear_blanket_wall_step,
       make_tf_coils_step(self, rad),
       make_pf_coils_step(self),
       cut_pf_coils_step(self, rad) >>

\* faulty variant: the TF coils are made before the builds
create_solids_steps_tf_coils_early(self, pl, rad, ver) ==
    << rotation_angle_check_step(self),
       make_plasma_step,
       make_tf_coils_step(self, rad),
       make_radial_build_step(self, pl),
       make_vertical_build_step(self, pl, rad),
       make_center_column_shield_step,
       make_firstwall_step,
       make_blanket_step,
       make_divertor_step,
       make_supports_step,
       make_rear_blanket_wall_step,
       make_pf_coils_step(self),
       cut_pf_coils_step(self, rad) >>

\* the calls create_solids makes, in order
create_solids_steps(self, pl, rad, ver) ==
    << rotation_angle_check_step(self),
       make_plasma_step,
       make_radial_build_step(self, pl),
       make_vertical_build_step(self, pl, rad),
       make_center_column_shield_step,
       make_firstwall_step,
       make_blanket_step,
       make_divertor_step,
       make_supports_step,
       make_rear_blanket_wall_step,
       make_tf_coils_step(self, rad),
       make_pf_coils_step(self),
       cut_pf_coils_step(self, rad) >>

\* the warnings among the events of the steps
RECURSIVE WarningsIn(_)
WarningsIn(calls) ==
    IF calls = << >> THEN 0
    ELSE Cardinality({ i \in 1..Len(Head(calls).events) :
                           Head(calls).events[i].event = "warn" })
             + WarningsIn(Tail(calls))

(***************************************************************************)
(* SubmersionTokamak.create_solids                                         *)
(***************************************************************************)
create_solids ==
    LET pl == _make_plasma(major_radius, minor_radius, elongation,
                           triangularity)
        rad == _make_radial_build(thickness, optional, pl, radial)
        ver == _make_vertical_build(thickness, pl, rad, vertical)
        calls == create_solids_steps(Self, pl, rad, ver)
    IN  /\ builds < MaxBuilds
        /\ builds' = builds + 1
        /\ steps' = calls
        /\ warnings' = warnings + WarningsIn(calls)
        /\ plasma' = pl
        /\ radial' = rad
        /\ vertical' = ver
        /\ components' =
               [ _divertor |-> _make_divertor(divertor_position, rad, ver),
                 _supports |-> _make_supports(support_position, rad, ver) ]
        /\ shapes_and_components' =
               LET pf_coils == _make_pf_coils(pf, pf_coil_case_thicknesses)
                   uncut == uncut_shapes(optional, number_of_tf_coils, rad)
               IN  IF pf_coils = None THEN uncut
                                      ELSE Value(pf_coils) \o uncut
        /\ last_call' = Call("create_solids", << >>)
        /\ error' = "none"
        /\ UNCHANGED <<thickness, elongation, triangularity, major_radius,
                       minor_radius, optional, number_of_tf_coils,
                       rotation_angle, pf, pf_coil_case_thicknesses,
                       divertor_position, support_position, mutations,
                       hyperbola, flat_top, pf_coil, iter_divertor,
                       inboard_firstwall,
                       hollow_cube, rotate_shape, cylinder_reactor>>

ReactorNext ==
    \/ \E name \in ThicknessNames, value \in Thick :
           set_thickness(name, value)
    \/ \E name \in OptionalNames, value \in {None} \cup {Some(t) : t \in Thick} :
           set_optional(name, value)
    \/ \E value \in TfCoilNumbers : set_number_of_tf_coils(value)
    \/ \E value \in RotationAngles : set_rotation_angle(value)
    \/ \E value \in {None, Some(DefaultPfCoilCaseThicknesses)} :
           set_pf_coil_case_thicknesses(value)
    \/ \E value \in {NonePf, ListPf(<<Length4(1)>>)} :
           set_pf_coil_vertical_position(value)
    \/ \E name \in ValidatedPfNames, value \in PfInputs :
           pf_coil_setter(name, value)
    \/ \E value \in PositionInputs : divertor_position_setter(value)
    \/ \E value \in PositionInputs : support_position_setter(value)
    \/ create_solids

(***************************************************************************)
(* CenterColumnShieldHyperbola                                             *)
(***************************************************************************)
Radii == {Length4(i) : i \in 0..MaxRadius}

Heights == {Length4(1), Length4(2)}

\* the object the constructor leaves: four attributes, no points yet
HyperbolaInit ==
    hyperbola \in [ height : Heights, inner_radius : Radii,
                    mid_radius : Radii, outer_radius : Radii,
                    points : {None} ]

hyperbola_height_setter(height) ==
    /\ hyperbola' = [hyperbola EXCEPT !.height = height]
    /\ last_call' = Call("height", <<height>>)
    /\ error' = "none"
    /\ UNCHANGED <<reactor_state, flat_top, pf_coil, iter_divertor,
                   inboard_firstwall,
                   hollow_cube, rotate_shape, cylinder_reactor>>

hyperbola_inner_radius_setter(inner_radius) ==
    /\ hyperbola' = [hyperbola EXCEPT !.inner_radius = inner_radius]
    /\ last_call' = Call("inner_radius", <<inner_radius>>)
    /\ error' = "none"
    /\ UNCHANGED <<reactor_state, flat_top, pf_coil, iter_divertor,
                   inboard_firstwall,
                   hollow_cube, rotate_shape, cylinder_reactor>>

\* faulty variant: the ordering is checked when mid_radius is assigned
hyperbola_mid_radius_setter_validating(mid_radius) ==
    /\ last_call' = Call("mid_radius", <<mid_radius>>)
    /\ IF mid_radius < hyperbola.inner_radius
         THEN /\ error' = "ValueError"
              /\ hyperbola' = hyperbola
         ELSE /\ error' = "none"
              /\ hyperbola' = [hyperbola EXCEPT !.mid_radius = mid_radius]
    /\ UNCHANGED <<reactor_state, flat_top, pf_coil, iter_divertor,
                   inboard_firstwall,
                   hollow_cube, rotate_shape, cylinder_reactor>>

hyperbola_mid_radius_setter(mid_radius) ==
    /\ hyperbola' = [hyperbola EXCEPT !.mid_radius = mid_radius]
    /\ last_call' = Call("mid_radius", <<mid_radius>>)
    /\ error' = "none"
    /\ UNCHANGED <<reactor_state, flat_top, pf_coil, iter_divertor,
                   inboard_firstwall,
                   hollow_cube, rotate_shape, cylinder_reactor>>

hyperbola_outer_radius_setter(outer_radius) ==
    /\ hyperbola' = [hyperbola EXCEPT !.outer_radius = outer_radius]
    /\ last_call' = Call("outer_radius", <<outer_radius>>)
    /\ error' = "none"
    /\ UNCHANGED <<reactor_state, flat_top, pf_coil, iter_divertor,
                   inboard_firstwall,
                   hollow_cube, rotate_shape, cylinder_reactor>>

\* faulty variant: the comparisons are strict
hyperbola_ordering_violated_strict(self) ==
    ~ (self.inner_radius < self.mid_radius
         /\ self.mid_radius < self.outer_radius)

\* the check that opens find_points: TRUE when it raises
hyperbola_ordering_violated(self) ==
    ~ (self.inner_radius <= self.mid_radius
         /\ self.mid_radius <= self.outer_radius)

hyperbola_points(self) ==
    << <<self.inner_radius, 0, "straight">>,
       <<self.inner_radius, self.height \div 2, "straight">>,
       <<self.outer_radius, self.height \div 2, "spline">>,
       <<self.mid_radius, 0, "spline">>,
       <<self.outer_radius, -(self.height \div 2), "straight">>,
       <<self.inner_radius, -(self.height \div 2), "straight">> >>

\* faulty variant: the points are assigned before the ordering is checked
hyperbola_find_points_assign_first ==
    /\ last_call' = Call("find_points", << >>)
    /\ UNCHANGED <<reactor_state, flat_top, pf_coil, iter_divertor,
                   inboard_firstwall,
                   hollow_cube, rotate_shape, cylinder_reactor>>
    /\ hyperbola' =
           [hyperbola EXCEPT !.points = Some(hyperbola_points(hyperbola))]
    /\ error' = IF hyperbola_ordering_violated(hyperbola)
                  THEN "ValueError" ELSE "none"

hyperbola_find_points ==
    /\ last_call' = Call("find_points", << >>)
    /\ UNCHANGED <<reactor_state, flat_top, pf_coil, iter_divertor,
                   inboard_firstwall,
                   hollow_cube, rotate_shape, cylinder_reactor>>
    /\ IF hyperbola_ordering_violated(hyperbola)
         THEN /\ error' = "ValueError"
              /\ hyperbola' = hyperbola
         ELSE /\ error' = "none"
              /\ hyperbola' =
                     [hyperbola EXCEPT !.points = Some(hyperbola_points(hyperbola))]

HyperbolaNext ==
    \/ \E h \in Heights : hyperbola_height_setter(h)
    \/ \E r \in Radii : hyperbola_inner_radius_setter(r)
    \/ \E r \in Radii : hyperbola_mid_radius_setter(r)
    \/ \E r \in Radii : hyperbola_outer_radius_setter(r)
    \/ hyperbola_find_points

(***************************************************************************)
(* CenterColumnShieldFlatTopCircular                                       *)
(***************************************************************************)
FlatTopInit ==
    flat_top \in [ height : Heights, arc_height : {Length4(1)},
                   inner_radius : Radii, mid_radius : Radii,
                   outer_radius : Radii, points : {None} ]

flat_top_height_setter(height) ==
    /\ flat_top' = [flat_top EXCEPT !.height = height]
    /\ last_call' = Call("height", <<height>>)
    /\ error' = "none"
    /\ UNCHANGED <<reactor_state, hyperbola, pf_coil, iter_divertor,
                   inboard_firstwall,
                   hollow_cube, rotate_shape, cylinder_reactor>>

flat_top_arc_height_setter(arc_height) ==
    /\ flat_top' = [flat_top EXCEPT !.arc_height = arc_height]
    /\ last_call' = Call("arc_height", <<arc_height>>)
    /\ error' = "none"
    /\ UNCHANGED <<reactor_state, hyperbola, pf_coil, iter_divertor,
                   inboard_firstwall,
                   hollow_cube, rotate_shape, cylinder_reactor>>

flat_top_inner_radius_setter(inner_radius) ==
    /\ flat_top' = [flat_top EXCEPT !.inner_radius = inner_radius]
    /\ last_call' = Call("inner_radius", <<inner_radius>>)
    /\ error' = "none"
    /\ UNCHANGED <<reactor_state, hyperbola, pf_coil, iter_divertor,
                   inboard_firstwall,
                   hollow_cube, rotate_shape, cylinder_reactor>>

flat_top_mid_radius_setter(mid_radius) ==
    /\ flat_top' = [flat_top EXCEPT !.mid_radius = mid_radius]
    /\ last_call' = Call("mid_radius", <<mid_radius>>)
    /\ error' = "none"
    /\ UNCHANGED <<reactor_state, hyperbola, pf_coil, iter_divertor,
                   inboard_firstwall,
                   hollow_cube, rotate_shape, cylinder_reactor>>

flat_top_outer_radius_setter(outer_radius) ==
    /\ flat_top' = [flat_top EXCEPT !.outer_radius = outer_radius]
    /\ last_call' = Call("outer_radius", <<outer_radius>>)
    /\ error' = "none"
    /\ UNCHANGED <<reactor_state, hyperbola, pf_coil, iter_divertor,
                   inboard_firstwall,
                   hollow_cube, rotate_shape, cylinder_reactor>>

flat_top_points(self) ==
    << <<self.inner_radius, 0, "straight">>,
       <<self.inner_radius, self.height \div 2, "straight">>,
       <<self.outer_radius, self.height \div 2, "straight">>,
       <<self.outer_radius, self.arc_height \div 2, "circle">>,
       <<self.mid_radius, 0, "circle">>,
       <<self.outer_radius, -(self.arc_height \div 2), "straight">>,
       <<self.outer_radius, -(self.height \div 2), "straight">>,
       <<self.inner_radius, -(self.height \div 2), "straight">> >>

flat_top_find_points ==
    /\ last_call' = Call("find_points", << >>)
    /\ UNCHANGED <<reactor_state, hyperbola, pf_coil, iter_divertor,
                   inboard_firstwall,
                   hollow_cube, rotate_shape, cylinder_reactor>>
    /\ error' = "none"
    /\ flat_top' = [flat_top EXCEPT !.points = Some(flat_top_points(flat_top))]

FlatTopNext ==
    \/ \E h \in Heights : flat_top_height_setter(h)
    \/ \E h \in Heights : flat_top_arc_height_setter(h)
    \/ \E r \in Radii : flat_top_inner_radius_setter(r)
    \/ \E r \in Radii : flat_top_mid_radius_setter(r)
    \/ \E r \in Radii : flat_top_outer_radius_setter(r)
    \/ flat_top_find_points

(***************************************************************************)
(* PoloidalFieldCoil                                                       *)
(***************************************************************************)
\* the heights and widths a coil is given
CoilLengths == {Length4(i) : i \in 0..MaxRadius}

\* the (x, z) values a center point is given
CenterPoints == CoilLengths \X {-Length4(1), 0, Length4(1)}

\* the object the constructor leaves: three attributes, no points yet
PoloidalFieldCoilInit ==
    pf_coil \in [ center_point : CenterPoints, height : CoilLengths,
                  width : CoilLengths, points : {None} ]

poloidal_field_coil_center_point_setter(center_point) ==
    /\ pf_coil' = [pf_coil EXCEPT !.center_point = center_point]
    /\ last_call' = Call("center_point", <<center_point>>)
    /\ error' = "none"
    /\ UNCHANGED <<reactor_state, hyperbola, flat_top, iter_divertor,
                   inboard_firstwall,
                   hollow_cube, rotate_shape, cylinder_reactor>>

poloidal_field_coil_height_setter(height) ==
    /\ pf_coil' = [pf_coil EXCEPT !.height = height]
    /\ last_call' = Call("height", <<height>>)
    /\ error' = "none"
    /\ UNCHANGED <<reactor_state, hyperbola, flat_top, iter_divertor,
                   inboard_firstwall,
                   hollow_cube, rotate_shape, cylinder_reactor>>

poloidal_field_coil_width_setter(width) ==
    /\ pf_coil' = [pf_coil EXCEPT !.width = width]
    /\ last_call' = Call("width", <<width>>)
    /\ error' = "none"
    /\ UNCHANGED <<reactor_state, hyperbola, flat_top, iter_divertor,
                   inboard_firstwall,
                   hollow_cube, rotate_shape, cylinder_reactor>>

\* faulty variant: the left corners are listed upper first
poloidal_field_coil_points_left_swapped(self) ==
    << << self.center_point[1] + self.width \div 2,
          self.center_point[2] + self.height \div 2 >>,
       << self.center_point[1] + self.width \div 2,
          self.center_point[2] - self.height \div 2 >>,
       << self.center_point[1] - self.width \div 2,
          self.center_point[2] + self.height \div 2 >>,
       << self.center_point[1] - self.width \div 2,
          self.center_point[2] - self.height \div 2 >> >>

\* the points list of find_points
poloidal_field_coil_points(self) ==
    << << self.center_point[1] + self.width \div 2,
          self.center_point[2] + self.height \div 2 >>,
       << self.center_point[1] + self.width \div 2,
          self.center_point[2] - self.height \div 2 >>,
       << self.center_point[1] - self.width \div 2,
          self.center_point[2] - self.height \div 2 >>,
       << self.center_point[1] - self.width \div 2,
          self.center_point[2] + self.height \div 2 >> >>

poloidal_field_coil_find_points ==
    /\ pf_coil' =
           [pf_coil EXCEPT !.points = Some(poloidal_field_coil_points(pf_coil))]
    /\ last_call' = Call("find_points", << >>)
    /\ error' = "none"
    /\ UNCHANGED <<reactor_state, hyperbola, flat_top, iter_divertor,
                   inboard_firstwall,
                   hollow_cube, rotate_shape, cylinder_reactor>>

PoloidalFieldCoilNext ==
    \/ \E c \in CenterPoints : poloidal_field_coil_center_point_setter(c)
    \/ \E h \in CoilLengths : poloidal_field_coil_height_setter(h)
    \/ \E w \in CoilLengths : poloidal_field_coil_width_setter(w)
    \/ poloidal_field_coil_find_points

(***************************************************************************)
(* paramak.utils: rotate, extend and distance_between_two_points.  Angles  *)
(* are in units of pi / 2, and the functions are exact on the points the   *)
(* model gives them: quarter turns, and segments of integer length.        *)
(***************************************************************************)
Abs(x) == IF x < 0 THEN -x ELSE x

\* math.radians of an angle in degrees, in units of pi / 2
radians(degrees) == degrees \div 90

cos(angle) == CASE angle % 4 = 0 -> 1
                [] angle % 4 = 1 -> 0
                [] angle % 4 = 2 -> -1
                [] angle % 4 = 3 -> 0

sin(angle) == CASE angle % 4 = 0 -> 0
                [] angle % 4 = 1 -> 1
                [] angle % 4 = 2 -> 0
                [] angle % 4 = 3 -> -1

\* point rotated counter-clockwise about origin
rotate(origin, point, angle) ==
    << origin[1] + cos(angle) * (point[1] - origin[1])
                 - sin(angle) * (point[2] - origin[2]),
       origin[2] + sin(angle) * (point[1] - origin[1])
                 + cos(angle) * (point[2] - origin[2]) >>

distance_between_two_points(A, B) ==
    CHOOSE d \in 0..(Abs(B[1] - A[1]) + Abs(B[2] - A[2])) :
        d * d = (B[1] - A[1]) * (B[1] - A[1]) + (B[2] - A[2]) * (B[2] - A[2])

\* the point at distance L from A on the ray from A through B
extend(A, B, L) ==
    << A[1] + (L * (B[1] - A[1])) \div distance_between_two_points(A, B),
       A[2] + (L * (B[2] - A[2])) \div distance_between_two_points(A, B) >>

(***************************************************************************)
(* ITERtypeDivertor.  Its lengths are multiples of 20, on which the        *)
(* factors 1.1, 1.2 and 0.5 of find_points are exact; dome_pos is in       *)
(* halves.                                                                 *)
(***************************************************************************)
Length20(i) == 20 * i

Reverse(seq) == [i \in 1..Len(seq) |-> seq[Len(seq) + 1 - i]]

\* a point with its connection
Tagged(point, connection) == <<point[1], point[2], connection>>

\* the first two entries of a point: its coordinates
Coordinates(point) == <<point[1], point[2]>>

_create_vertical_target_points(anchor, coverage, tilt, radius, length) ==
    LET base_circle_inner == <<anchor[1] + radius, anchor[2]>>
        A == rotate(base_circle_inner, anchor, coverage)
        A_prime == rotate(base_circle_inner, anchor, coverage \div 2)
        c_coord == <<anchor[1], anchor[2] - length>>
    IN  << rotate(anchor, A, tilt),
           rotate(anchor, A_prime, tilt),
           <<anchor[1], anchor[2]>>,
           rotate(anchor, c_coord, tilt) >>

_create_dome_points(c_coord, F, dome_length, dome_height, dome_thickness, dome_pos) ==
    LET dome_base ==
            extend(c_coord, F,
                   (dome_pos * distance_between_two_points(F, c_coord))
                       \div 2)
        dome_lower_point ==
            extend(dome_base, rotate(dome_base, c_coord, -1), dome_height)
        D_prime ==
            extend(dome_base, dome_lower_point, dome_height + dome_thickness)
        D == extend(dome_lower_point,
                    rotate(dome_lower_point, D_prime, 1),
                    dome_length \div 2)
        E == extend(dome_lower_point,
                    rotate(dome_lower_point, D_prime, -1),
                    dome_length \div 2)
    IN  << Tagged(D, "circle"), Tagged(D_prime, "circle"),
           Tagged(E, "straight") >>

_create_casing_points(anchors, c_coord, F, targets_lengths) ==
    LET B == anchors[1]
        G == anchors[2]
        h1 == targets_lengths[1]
        h2 == targets_lengths[2]
        I_ == extend(c_coord, F,
                     (distance_between_two_points(F, c_coord) * 11) \div 10)
        J == extend(G, F, (h2 * 12) \div 10)
        K == extend(B, c_coord, (h1 * 12) \div 10)
        L == extend(F, c_coord,
                    (distance_between_two_points(F, c_coord) * 11) \div 10)
    IN  << Tagged(I_, "straight"), Tagged(J, "straight"),
           Tagged(K, "straight"), Tagged(L, "straight") >>

\* the inner vertical target, with its connections
ivt_points(self) ==
    LET points ==
            _create_vertical_target_points(
                self.ivt_anchor, radians(self.ivt_coverage),
                radians(self.ivt_tilt), -self.ivt_radius, self.ivt_length)
        connections == <<"circle", "circle", "straight", "straight">>
    IN  [i \in 1..Len(points) |-> Tagged(points[i], connections[i])]

\* faulty variant: the outer vertical target is left in the order of the
\* generator
ovt_points_not_flipped(self) ==
    LET points ==
            _create_vertical_target_points(
                self.ovt_anchor, -radians(self.ovt_coverage),
                radians(self.ovt_tilt), self.ovt_radius, self.ovt_length)
        connections == <<"straight", "circle", "circle", "straight">>
    IN  [i \in 1..Len(points) |-> Tagged(points[i], connections[i])]

\* the outer vertical target, with its connections, flipped
ovt_points(self) ==
    LET points ==
            _create_vertical_target_points(
                self.ovt_anchor, -radians(self.ovt_coverage),
                radians(self.ovt_tilt), self.ovt_radius, self.ovt_length)
        connections == <<"straight", "circle", "circle", "straight">>
    IN  Reverse([i \in 1..Len(points) |-> Tagged(points[i], connections[i])])

dome_points(self) ==
    IF self.dome
      THEN _create_dome_points(
               Coordinates(ivt_points(self)[Len(ivt_points(self))]),
               Coordinates(ovt_points(self)[1]),
               self.dome_length, self.dome_height, self.dome_thickness,
               self.dome_pos)
      ELSE << >>

casing_points(self) ==
    _create_casing_points(
        <<self.ivt_anchor, self.ovt_anchor>>,
        Coordinates(ivt_points(self)[Len(ivt_points(self))]),
        Coordinates(ovt_points(self)[1]),
        <<self.ivt_length, self.ovt_length>>)

\* the constructor arguments: those whose vertical targets end at the same
\* height, at different radii
DivertorArgs ==
    { d \in [ ivt_anchor : {<<Length20(0), Length20(0)>>,
                            <<Length20(0), Length20(1)>>},
              ovt_anchor : {<<Length20(2), Length20(0)>>,
                            <<Length20(2), Length20(1)>>},
              ivt_coverage : {180},
              ovt_coverage : {180, 360},
              ivt_radius : {Length20(1)},
              ovt_radius : {Length20(1), Length20(2)},
              ivt_length : {Length20(1), Length20(2)},
              ovt_length : {Length20(1), Length20(2)},
              ivt_tilt : {0, 180},
              ovt_tilt : {0, 180},
              dome : BOOLEAN,
              dome_length : {Length20(2)},
              dome_height : {Length20(1)},
              dome_thickness : {Length20(1)},
              dome_pos : {1} ] :
        /\ ivt_points(d)[4][2] = ovt_points(d)[1][2]
        /\ ivt_points(d)[4][1] # ovt_points(d)[1][1] }

\* the object the constructor leaves: no casing_points and no points yet
ITERtypeDivertorInit ==
    \E d \in DivertorArgs :
        iter_divertor = d @@ [ casing_points |-> None, points |-> None ]

\* dome and the coverages are plain attributes
iter_divertor_set_dome(dome) ==
    /\ iter_divertor' = [iter_divertor EXCEPT !.dome = dome]
    /\ last_call' = Call("dome", <<dome>>)
    /\ error' = "none"
    /\ UNCHANGED <<reactor_state, hyperbola, flat_top, pf_coil,
                   inboard_firstwall,
                   hollow_cube, rotate_shape, cylinder_reactor>>

iter_divertor_set_ovt_coverage(ovt_coverage) ==
    /\ iter_divertor' = [iter_divertor EXCEPT !.ovt_coverage = ovt_coverage]
    /\ last_call' = Call("ovt_coverage", <<ovt_coverage>>)
    /\ error' = "none"
    /\ UNCHANGED <<reactor_state, hyperbola, flat_top, pf_coil,
                   inboard_firstwall,
                   hollow_cube, rotate_shape, cylinder_reactor>>

\* faulty variant: the outer target comes first and the inner target last
iter_divertor_profile_outer_first(self) ==
    ovt_points(self) \o dome_points(self) \o ivt_points(self)
        \o casing_points(self)

\* the points of the whole profile
iter_divertor_profile(self) ==
    ivt_points(self) \o dome_points(self) \o ovt_points(self)
        \o casing_points(self)

iter_divertor_find_points ==
    /\ iter_divertor' =
           [iter_divertor EXCEPT
                !.casing_points = Some(casing_points(iter_divertor)),
                !.points = Some(iter_divertor_profile(iter_divertor))]
    /\ last_call' = Call("find_points", << >>)
    /\ error' = "none"
    /\ UNCHANGED <<reactor_state, hyperbola, flat_top, pf_coil,
                   inboard_firstwall,
                   hollow_cube, rotate_shape, cylinder_reactor>>

ITERtypeDivertorNext ==
    \/ \E dome \in BOOLEAN : iter_divertor_set_dome(dome)
    \/ \E coverage \in {180, 360} : iter_divertor_set_ovt_coverage(coverage)
    \/ iter_divertor_find_points

(***************************************************************************)
(* The center column shields InboardFirstwallFCCS builds from.  A shape is *)
(* a record of its class (kind) and its constructor arguments.             *)
(***************************************************************************)
\* the classes with a mid_radius and an outer_radius
MidRadiusClasses ==
    {"CenterColumnShieldHyperbola", "CenterColumnShieldFlatTopHyperbola",
     "CenterColumnShieldCircular", "CenterColumnShieldFlatTopCircular"}

\* the plasma a CenterColumnShieldPlasmaHyperbola follows by default
DefaultPlasma == Plasma(Length4(4), Length4(1), 2, 1)

\* the points and connections of a shape, or the error its find_points
\* raises
Profile(points) == [error |-> "none", points |-> points]

Raises(exception) == [error |-> exception, points |-> << >>]

cylinder_profile(self) ==
    IF ~ (self.inner_radius < self.outer_radius)
      THEN Raises("ValueError")
      ELSE Profile(<< <<self.inner_radius, self.height \div 2, "straight">>,
                      <<self.outer_radius, self.height \div 2, "straight">>,
                      <<self.outer_radius, -(self.height \div 2), "straight">>,
                      <<self.inner_radius, -(self.height \div 2), "straight">> >>)

circular_profile(self) ==
    IF hyperbola_ordering_violated(self)
      THEN Raises("ValueError")
      ELSE Profile([i \in 1..6 |->
                        <<hyperbola_points(self)[i][1],
                          hyperbola_points(self)[i][2],
                          IF hyperbola_points(self)[i][3] = "spline"
                            THEN "circle" ELSE "straight">>])

flat_top_hyperbola_profile(self) ==
    IF hyperbola_ordering_violated(self)
      THEN Raises("ValueError")
      ELSE Profile([i \in 1..8 |->
                        <<flat_top_points(self)[i][1],
                          flat_top_points(self)[i][2],
                          IF flat_top_points(self)[i][3] = "circle"
                            THEN "spline" ELSE "straight">>])

plasma_hyperbola_profile(self) ==
    LET edge == DefaultPlasma.high_point[1] - self.edge_offset
        mid == DefaultPlasma.major_radius - DefaultPlasma.minor_radius
                   - self.mid_offset
    IN  IF ~ (self.inner_radius <= mid /\ self.inner_radius <= edge)
          THEN Raises("ValueError")
          ELSE Profile(<< <<self.inner_radius, 0, "straight">>,
                          <<self.inner_radius, self.height \div 2, "straight">>,
                          <<edge, self.height \div 2, "spline">>,
                          <<mid, 0, "spline">>,
                          <<edge, -(self.height \div 2), "straight">>,
                          <<self.inner_radius, -(self.height \div 2),
                            "straight">> >>)

\* CenterColumnShieldHyperbola.find_points, as a function of the shape
hyperbola_profile(self) ==
    IF hyperbola_ordering_violated(self)
      THEN Raises("ValueError")
      ELSE Profile(hyperbola_points(self))

\* CenterColumnShieldFlatTopCircular.find_points, as a function of the shape
flat_top_circular_profile(self) == Profile(flat_top_points(self))

\* shape.points: find_points of the shape's class
shape_points(shape) ==
    CASE shape.kind = "CenterColumnShieldCylinder" -> cylinder_profile(shape)
      [] shape.kind = "CenterColumnShieldHyperbola" -> hyperbola_profile(shape)
      [] shape.kind = "CenterColumnShieldFlatTopHyperbola" ->
             flat_top_hyperbola_profile(shape)
      [] shape.kind = "CenterColumnShieldPlasmaHyperbola" ->
             plasma_hyperbola_profile(shape)
      [] shape.kind = "CenterColumnShieldCircular" -> circular_profile(shape)
      [] shape.kind = "CenterColumnShieldFlatTopCircular" ->
             flat_top_circular_profile(shape)

\* shape.connection_type: straight for a RotateStraightShape, mixed for a
\* RotateMixedShape
shape_connection_type(shape) ==
    IF shape.kind = "CenterColumnShieldCylinder" THEN "straight" ELSE "mixed"

(***************************************************************************)
(* InboardFirstwallFCCS                                                    *)
(***************************************************************************)
acceptable_classes ==
    {"CenterColumnShieldCylinder", "CenterColumnShieldHyperbola",
     "CenterColumnShieldFlatTopHyperbola",
     "CenterColumnShieldPlasmaHyperbola", "CenterColumnShieldCircular",
     "CenterColumnShieldFlatTopCircular"}

\* the objects given as central_column_shield: one shield of each class, a
\* hyperbola shield whose mid_radius is below its inner_radius, and a shape
\* that is no center column shield
FirstwallShields ==
    { [ kind |-> "CenterColumnShieldCylinder", height |-> Length4(2),
        inner_radius |-> Length4(1), outer_radius |-> Length4(3) ],
      [ kind |-> "CenterColumnShieldPlasmaHyperbola", height |-> Length4(2),
        inner_radius |-> Length4(1), mid_offset |-> Length4(1),
        edge_offset |-> Length4(1) ],
      [ kind |-> "CenterColumnShieldHyperbola", height |-> Length4(2),
        inner_radius |-> Length4(1), mid_radius |-> Length4(0),
        outer_radius |-> Length4(3) ],
      [ kind |-> "PoloidalFieldCoil", height |-> Length4(1),
        width |-> Length4(1), center_point |-> <<Length4(1), 0>> ] }
    \cup { [ kind |-> k, height |-> Length4(2), inner_radius |-> Length4(1),
             mid_radius |-> Length4(2), outer_radius |-> Length4(3) ] :
           k \in {"CenterColumnShieldHyperbola",
                  "CenterColumnShieldCircular"} }
    \cup { [ kind |-> k, height |-> Length4(2), arc_height |-> Length4(1),
             inner_radius |-> Length4(1), mid_radius |-> Length4(2),
             outer_radius |-> Length4(3) ] :
           k \in {"CenterColumnShieldFlatTopHyperbola",
                  "CenterColumnShieldFlatTopCircular"} }

\* the cut attribute: None, a shape, or a list of shapes
NoCut == [kind |-> "None"]

CutShape(shape) == [kind |-> "shape", shape |-> shape]

CutList(items) == [kind |-> "list", items |-> items]

\* the object the constructor leaves
InboardFirstwallInit ==
    \E shield \in FirstwallShields, value \in Thick :
        inboard_firstwall =
            [ central_column_shield |-> shield,
              thickness |-> value,
              rotation_angle |-> 360,
              connection_type |-> "mixed",
              points |-> None,
              cut |-> NoCut,
              firstwall |-> None,
              calls |-> 0 ]

inboard_firstwall_thickness_setter(value) ==
    /\ inboard_firstwall' = [inboard_firstwall EXCEPT !.thickness = value]
    /\ last_call' = Call("thickness", <<value>>)
    /\ error' = "none"
    /\ UNCHANGED <<reactor_state, hyperbola, flat_top, pf_coil,
                   iter_divertor,
                   hollow_cube, rotate_shape, cylinder_reactor>>

inboard_firstwall_central_column_shield_setter(value) ==
    /\ inboard_firstwall' =
           [inboard_firstwall EXCEPT !.central_column_shield = value]
    /\ last_call' = Call("central_column_shield", <<value>>)
    /\ error' = "none"
    /\ UNCHANGED <<reactor_state, hyperbola, flat_top, pf_coil,
                   iter_divertor,
                   hollow_cube, rotate_shape, cylinder_reactor>>

\* faulty variant: only outer_radius is moved out by the thickness
derived_firstwall_mid_radius_kept(self) ==
    LET shield == self.central_column_shield
        base == [ kind |-> shield.kind,
                  height |-> shield.height,
                  inner_radius |-> shield.inner_radius,
                  rotation_angle |-> self.rotation_angle ]
    IN  CASE shield.kind = "CenterColumnShieldCylinder" ->
                 base @@ [ outer_radius |->
                               shield.outer_radius + self.thickness ]
          [] shield.kind \in {"CenterColumnShieldHyperbola",
                              "CenterColumnShieldCircular"} ->
                 base @@ [ mid_radius |-> shield.mid_radius,
                           outer_radius |->
                               shield.outer_radius + self.thickness ]
          [] shield.kind \in {"CenterColumnShieldFlatTopHyperbola",
                              "CenterColumnShieldFlatTopCircular"} ->
                 base @@ [ arc_height |-> shield.arc_height,
                           mid_radius |-> shield.mid_radius,
                           outer_radius |->
                               shield.outer_radius + self.thickness ]
          [] shield.kind = "CenterColumnShieldPlasmaHyperbola" ->
                 base @@ [ mid_offset |-> shield.mid_offset - self.thickness,
                           edge_offset |->
                               shield.edge_offset - self.thickness ]

\* the shape find_points builds from the shield: the local firstwall, with
\* the rotation_angle it is then given
derived_firstwall(self) ==
    LET shield == self.central_column_shield
        base == [ kind |-> shield.kind,
                  height |-> shield.height,
                  inner_radius |-> shield.inner_radius,
                  rotation_angle |-> self.rotation_angle ]
    IN  CASE shield.kind = "CenterColumnShieldCylinder" ->
                 base @@ [ outer_radius |->
                               shield.outer_radius + self.thickness ]
          [] shield.kind \in {"CenterColumnShieldHyperbola",
                              "CenterColumnShieldCircular"} ->
                 base @@ [ mid_radius |->
                               shield.mid_radius + self.thickness,
                           outer_radius |->
                               shield.outer_radius + self.thickness ]
          [] shield.kind \in {"CenterColumnShieldFlatTopHyperbola",
                              "CenterColumnShieldFlatTopCircular"} ->
                 base @@ [ arc_height |-> shield.arc_height,
                           mid_radius |->
                               shield.mid_radius + self.thickness,
                           outer_radius |->
                               shield.outer_radius + self.thickness ]
          [] shield.kind = "CenterColumnShieldPlasmaHyperbola" ->
                 base @@ [ mid_offset |-> shield.mid_offset - self.thickness,
                           edge_offset |->
                               shield.edge_offset - self.thickness ]

\* faulty variant: the shield is put in front of the shapes already in cut
add_to_cut_in_front(cut, shape) ==
    CASE cut = [kind |-> "None"] -> [kind |-> "shape", shape |-> shape]
      [] cut.kind = "list" ->
             [kind |-> "list", items |-> <<shape>> \o cut.items]
      [] cut.kind = "shape" ->
             [kind |-> "list", items |-> <<shape, cut.shape>>]

\* add to cut attribute
add_to_cut(cut, shape) ==
    CASE cut = NoCut -> CutShape(shape)
      [] cut.kind = "list" -> CutList(Append(cut.items, shape))
      [] cut.kind = "shape" -> CutList(<<cut.shape, shape>>)

\* faulty variant: the shield is added to cut before its class is checked
inboard_firstwall_find_points_cut_first ==
    LET self == inboard_firstwall
        shield == self.central_column_shield
        with_cut == [self EXCEPT !.cut = add_to_cut(self.cut, shield),
                                 !.calls = self.calls + 1]
    IN  /\ self.calls < MaxFinds
        /\ last_call' = Call("find_points", << >>)
        /\ UNCHANGED <<reactor_state, hyperbola, flat_top, pf_coil,
                       iter_divertor,
                       hollow_cube, rotate_shape, cylinder_reactor>>
        /\ IF shield.kind \notin acceptable_classes
             THEN /\ error' = "ValueError"
                  /\ inboard_firstwall' = with_cut
             ELSE LET firstwall == derived_firstwall(self)
                  IN  IF shape_points(firstwall).error # "none"
                        THEN /\ error' = shape_points(firstwall).error
                             /\ inboard_firstwall' =
                                    [with_cut EXCEPT
                                         !.connection_type =
                                             shape_connection_type(firstwall)]
                        ELSE /\ error' = "none"
                             /\ inboard_firstwall' =
                                    [with_cut EXCEPT
                                         !.connection_type =
                                             shape_connection_type(firstwall),
                                         !.points =
                                             Some(shape_points(firstwall).points),
                                         !.firstwall = Some(firstwall)]

\* faulty variant: the shield is added to cut before the points of the
\* derived shape are generated
inboard_firstwall_find_points_cut_before_points ==
    LET self == inboard_firstwall
        shield == self.central_column_shield
        called == [self EXCEPT !.calls = self.calls + 1]
    IN  /\ self.calls < MaxFinds
        /\ last_call' = Call("find_points", << >>)
        /\ UNCHANGED <<reactor_state, hyperbola, flat_top, pf_coil,
                       iter_divertor,
                       hollow_cube, rotate_shape, cylinder_reactor>>
        /\ IF shield.kind \notin acceptable_classes
             THEN /\ error' = "ValueError"
                  /\ inboard_firstwall' = called
             ELSE LET firstwall == derived_firstwall(self)
                  IN  IF shape_points(firstwall).error # "none"
                        THEN /\ error' = shape_points(firstwall).error
                             /\ inboard_firstwall' =
                                    [called EXCEPT
                                         !.connection_type =
                                             shape_connection_type(firstwall),
                                         !.cut =
                                             add_to_cut(self.cut, shield)]
                        ELSE /\ error' = "none"
                             /\ inboard_firstwall' =
                                    [called EXCEPT
                                         !.connection_type =
                                             shape_connection_type(firstwall),
                                         !.points =
                                             Some(shape_points(firstwall).points),
                                         !.cut =
                                             add_to_cut(self.cut, shield),
                                         !.firstwall = Some(firstwall)]

inboard_firstwall_find_points ==
    LET self == inboard_firstwall
        shield == self.central_column_shield
        called == [self EXCEPT !.calls = self.calls + 1]
    IN  /\ self.calls < MaxFinds
        /\ last_call' = Call("find_points", << >>)
        /\ UNCHANGED <<reactor_state, hyperbola, flat_top, pf_coil,
                       iter_divertor,
                       hollow_cube, rotate_shape, cylinder_reactor>>
        /\ IF shield.kind \notin acceptable_classes
             THEN /\ error' = "ValueError"
                  /\ inboard_firstwall' = called
             ELSE LET firstwall == derived_firstwall(self)
                  IN  IF shape_points(firstwall).error # "none"
                        THEN /\ error' = shape_points(firstwall).error
                             /\ inboard_firstwall' =
                                    [called EXCEPT
                                         !.connection_type =
                                             shape_connection_type(firstwall)]
                        ELSE /\ error' = "none"
                             /\ inboard_firstwall' =
                                    [called EXCEPT
                                         !.connection_type =
                                             shape_connection_type(firstwall),
                                         !.points =
                                             Some(shape_points(firstwall).points),
                                         !.cut =
                                             add_to_cut(self.cut, shield),
                                         !.firstwall = Some(firstwall)]

InboardFirstwallNext ==
    \/ \E value \in Thick : inboard_firstwall_thickness_setter(value)
    \/ \E value \in FirstwallShields :
           inboard_firstwall_central_column_shield_setter(value)
    \/ inboard_firstwall_find_points

(***************************************************************************)
(* HollowCube                                                              *)
(***************************************************************************)
\* cadquery's Workplane.box(length, width, height): a box centred on the
\* origin, given by its lowest and highest coordinate on each of the axes
box(length, width, height) ==
    [ x |-> << -(length \div 2), length \div 2 >>,
      y |-> << -(width \div 2), width \div 2 >>,
      z |-> << -(height \div 2), height \div 2 >> ]

\* outer.cut(inner): the outer box with the inner box removed
box_cut(outer, inner) == [outer |-> outer, inner |-> inner]

CubeLengths == { Length4(i) : i \in 1..(MaxRadius + 2) }

HollowCubeInit ==
    \E length \in CubeLengths, value \in Thick :
        hollow_cube = [length |-> length, thickness |-> value, solid |-> None]

hollow_cube_thickness_setter(value) ==
    /\ hollow_cube' = [hollow_cube EXCEPT !.thickness = value]
    /\ last_call' = Call("thickness", <<value>>)
    /\ error' = "none"
    /\ UNCHANGED <<reactor_state, hyperbola, flat_top, pf_coil,
                   iter_divertor, inboard_firstwall, rotate_shape,
                   cylinder_reactor>>

hollow_cube_length_setter(value) ==
    /\ hollow_cube' = [hollow_cube EXCEPT !.length = value]
    /\ last_call' = Call("length", <<value>>)
    /\ error' = "none"
    /\ UNCHANGED <<reactor_state, hyperbola, flat_top, pf_coil,
                   iter_divertor, inboard_firstwall, rotate_shape,
                   cylinder_reactor>>

\* HollowCube.create_solid: the solid it assigns and returns
hollow_cube_solid(self) ==
    LET inner_box == box(self.length, self.length, self.length)
        outer_box == box(self.length + self.thickness,
                         self.length + self.thickness,
                         self.length + self.thickness)
    IN  box_cut(outer_box, inner_box)

hollow_cube_create_solid ==
    /\ hollow_cube' =
           [hollow_cube EXCEPT !.solid = Some(hollow_cube_solid(hollow_cube))]
    /\ last_call' = Call("create_solid", << >>)
    /\ error' = "none"
    /\ UNCHANGED <<reactor_state, hyperbola, flat_top, pf_coil,
                   iter_divertor, inboard_firstwall, rotate_shape,
                   cylinder_reactor>>

HollowCubeNext ==
    \/ \E value \in Thick : hollow_cube_thickness_setter(value)
    \/ \E value \in CubeLengths : hollow_cube_length_setter(value)
    \/ hollow_cube_create_solid

(***************************************************************************)
(* RotateMixedShape and RotateCircleShape                                  *)
(***************************************************************************)
\* rotation angles, in degrees
Angles == {90, 180, 360}

\* the geometry kernel: the solid a wire sweeps when revolved by an angle
revolve(wire, angle) == [section |-> wire.section, angle |-> angle]

\* Shape.rotate_solid and Shape.perform_boolean_operations of a shape with
\* no azimuth placement and no cut, union or intersect: the solid itself
rotate_solid(solid) == solid

perform_boolean_operations(solid) == solid

\* the kernel's volume of a revolved solid: the angle times the first moment
\* of area of the section about the axis (here per quarter turn)
Volume(solid) == (solid.angle \div 90) * solid.section

\* what create_solid does, in order: the kernel calls and the assignments
CreateSolidSteps ==
    << "create_wire", "self.wire", "revolve", "rotate_solid",
       "perform_boolean_operations", "self.solid" >>

\* the kernel calls of create_solid; each may fail
KernelCalls ==
    {"create_wire", "revolve", "rotate_solid", "perform_boolean_operations"}

\* the steps create_solid gets through when the kernel call failure fails
StepsUntil(failure) ==
    IF failure = "none" THEN CreateSolidSteps
    ELSE SubSeq(CreateSolidSteps, 1,
                CHOOSE n \in 1..Len(CreateSolidSteps) :
                    CreateSolidSteps[n] = failure)

\* faulty variant: the wire is revolved by a full turn whatever the
\* rotation_angle
rotate_mixed_shape_create_solid_full_turn(self, failure) ==
    LET wire == [section |-> self.section]
        solid == perform_boolean_operations(rotate_solid(revolve(wire, 360)))
        done == StepsUntil(failure)
    IN  [self EXCEPT
             !.wire = IF failure = "create_wire" THEN @ ELSE Some(wire),
             !.solid = IF failure = "none" THEN Some(solid) ELSE @,
             !.calls = done]

\* RotateMixedShape.create_solid: the shape it leaves
rotate_mixed_shape_create_solid(self, failure) ==
    LET wire == [section |-> self.section]
        solid == perform_boolean_operations(
                     rotate_solid(revolve(wire, self.rotation_angle)))
        done == StepsUntil(failure)
    IN  [self EXCEPT
             !.wire = IF failure = "create_wire" THEN @ ELSE Some(wire),
             !.solid = IF failure = "none" THEN Some(solid) ELSE @,
             !.calls = done]

\* faulty variant: the revolved solid is assigned to self.solid before
\* rotate_solid and perform_boolean_operations
rotate_circle_shape_create_solid_assign_first(self, failure) ==
    LET wire == [section |-> self.section]
        revolved == revolve(wire, self.rotation_angle)
        done == StepsUntil(failure)
    IN  [self EXCEPT
             !.wire = IF failure = "create_wire" THEN @ ELSE Some(wire),
             !.solid = IF failure \in {"create_wire", "revolve"}
                         THEN @ ELSE Some(revolved),
             !.calls = done]

\* RotateCircleShape.create_solid: the shape it leaves
rotate_circle_shape_create_solid(self, failure) ==
    LET wire == [section |-> self.section]
        solid == perform_boolean_operations(
                     rotate_solid(revolve(wire, self.rotation_angle)))
        done == StepsUntil(failure)
    IN  [self EXCEPT
             !.wire = IF failure = "create_wire" THEN @ ELSE Some(wire),
             !.solid = IF failure = "none" THEN Some(solid) ELSE @,
             !.calls = done]

shape_create_solid(self, failure) ==
    IF self.kind = "RotateMixedShape"
      THEN rotate_mixed_shape_create_solid(self, failure)
      ELSE rotate_circle_shape_create_solid(self, failure)

\* the error a failing kernel call raises
KernelError(failure) ==
    IF failure = "none" THEN "none" ELSE "Standard_ConstructionError"

\* the first moments of area of the sections of the shapes
Sections == {Length4(1), Length4(2)}

RotateShapeInit ==
    \E kind \in {"RotateMixedShape", "RotateCircleShape"},
       angle \in Angles, section \in Sections :
        rotate_shape =
            [ kind |-> kind,
              rotation_angle |-> angle,
              section |-> section,
              wire |-> None,
              solid |-> None,
              calls |-> << >>,
              volumes |-> [a \in Angles |-> None] ]

rotate_shape_rotation_angle_setter(value) ==
    /\ rotate_shape' = [rotate_shape EXCEPT !.rotation_angle = value]
    /\ last_call' = Call("rotation_angle", <<value>>)
    /\ error' = "none"
    /\ UNCHANGED <<reactor_state, hyperbola, flat_top, pf_coil,
                   iter_divertor, inboard_firstwall, hollow_cube,
                   cylinder_reactor>>

rotate_shape_create_solid(failure) ==
    /\ rotate_shape' = shape_create_solid(rotate_shape, failure)
    /\ last_call' = Call("create_solid", << >>)
    /\ error' = KernelError(failure)
    /\ UNCHANGED <<reactor_state, hyperbola, flat_top, pf_coil,
                   iter_divertor, inboard_firstwall, hollow_cube,
                   cylinder_reactor>>

\* Shape.solid: the solid of the shape's present parameters, made anew when
\* it is read
shape_solid(self, failure) == shape_create_solid(self, failure)

\* Shape.volume(): the volume of the solid, noted under the rotation_angle
rotate_shape_volume(failure) ==
    LET self == rotate_shape
        read == shape_solid(self, failure)
    IN  /\ last_call' = Call("volume", << >>)
        /\ error' = KernelError(failure)
        /\ rotate_shape' =
               IF failure = "none"
                 THEN [read EXCEPT
                           !.volumes[self.rotation_angle] =
                               Some(Volume(Value(read.solid)))]
                 ELSE read
        /\ UNCHANGED <<reactor_state, hyperbola, flat_top, pf_coil,
                       iter_divertor, inboard_firstwall, hollow_cube,
                       cylinder_reactor>>

RotateShapeNext ==
    \/ \E value \in Angles : rotate_shape_rotation_angle_setter(value)
    \/ \E failure \in KernelCalls \cup {"none"} :
           rotate_shape_create_solid(failure)
    \/ \E failure \in KernelCalls \cup {"none"} :
           rotate_shape_volume(failure)

(***************************************************************************)
(* CylinderReactor                                                         *)
(***************************************************************************)
\* the spacing of the floats at the magnitude n >= 0
RECURSIVE Spacing(_)
Spacing(n) == IF n < 2 ^ FloatBits THEN 1 ELSE 2 * Spacing(n \div 2)

\* the float nearest to x, a tie going to the even significand
Float(x) ==
    LET n == IF x < 0 THEN -x ELSE x
        q == Spacing(n)
        below == n \div q
        rest == n % q
        up == 2 * rest > q \/ (2 * rest = q /\ below % 2 = 1)
        nearest == IF up THEN (below + 1) * q ELSE below * q
    IN  IF x < 0 THEN -nearest ELSE nearest

\* a + b and a - b of two floats
FloatAdd(a, b) == Float(a + b)

FloatSub(a, b) == Float(a - b)

\* height / 2.0, exact for the even heights of the model
HalfOf(height) == height \div 2

\* a RotateStraightShape of create_solids: its name and its points (r, z)
StraightShape(name, points) == [name |-> name, points |-> points]

\* the z and r coordinates of the points of a shape
ZCoordinates(shape) == { shape.points[i][2] : i \in DOMAIN shape.points }

RCoordinates(shape) == { shape.points[i][1] : i \in DOMAIN shape.points }

SetMax(S) == CHOOSE x \in S : \A y \in S : y <= x

SetMin(S) == CHOOSE x \in S : \A y \in S : x <= y

\* the radius of the inner wall of the vacuum vessel
inner_wall(self) ==
    FloatAdd(FloatAdd(self.inner_blanket_radius, self.blanket_thickness),
             self.blanket_vv_gap)

lower_vv_shape(self) ==
    LET half == HalfOf(self.blanket_height)
    IN  StraightShape("lower vacuum vessel",
            << <<inner_wall(self),
                 FloatSub(-half, self.lower_blanket_thickness)>>,
               <<inner_wall(self),
                 FloatSub(-half, FloatAdd(self.lower_blanket_thickness,
                                          self.lower_vv_thickness))>>,
               <<0, FloatSub(-half, FloatAdd(self.lower_blanket_thickness,
                                             self.lower_vv_thickness))>>,
               <<0, FloatSub(-half, self.lower_blanket_thickness)>> >>)

lower_blanket_shape(self) ==
    LET half == HalfOf(self.blanket_height)
    IN  StraightShape("lower blanket",
            << <<inner_wall(self), -half>>,
               <<inner_wall(self),
                 FloatSub(-half, self.lower_blanket_thickness)>>,
               <<0, FloatSub(-half, self.lower_blanket_thickness)>>,
               <<0, -half>> >>)

\* the CenterColumnShieldCylinder of the blanket: its arguments
blanket_shape(self) ==
    [ name |-> "blanket",
      height |-> self.blanket_height,
      inner_radius |-> self.inner_blanket_radius,
      outer_radius |-> FloatAdd(self.blanket_thickness,
                                self.inner_blanket_radius),
      cut |-> "lower blanket" ]

upper_blanket_shape(self) ==
    LET half == HalfOf(self.blanket_height)
    IN  StraightShape("upper blanket",
            << <<inner_wall(self), FloatAdd(half, self.upper_vv_thickness)>>,
               <<inner_wall(self),
                 FloatAdd(FloatAdd(half, self.upper_vv_thickness),
                          self.upper_blanket_thickness)>>,
               <<0, FloatAdd(FloatAdd(half, self.upper_vv_thickness),
                             self.upper_blanket_thickness)>>,
               <<0, FloatAdd(half, self.upper_vv_thickness)>> >>)

upper_vv_shape(self) ==
    LET half == HalfOf(self.blanket_height)
    IN  StraightShape("upper vacuum vessel",
            << <<inner_wall(self), half>>,
               <<inner_wall(self), FloatAdd(half, self.upper_vv_thickness)>>,
               <<0, FloatAdd(half, self.upper_vv_thickness)>>,
               <<0, half>> >>)

vac_ves_shape(self) ==
    LET half == HalfOf(self.blanket_height)
        top == FloatAdd(FloatAdd(half, self.upper_vv_thickness),
                        self.upper_blanket_thickness)
        bottom == FloatSub(FloatSub(-half, self.lower_blanket_thickness),
                           self.lower_vv_thickness)
    IN  StraightShape("vacuum vessel",
            << <<FloatAdd(inner_wall(self), self.vv_thickness), top>>,
               <<inner_wall(self), top>>,
               <<inner_wall(self), bottom>>,
               <<FloatAdd(inner_wall(self), self.vv_thickness), bottom>> >>)

\* the parameters of the reactors of the model, floats all
VerticalThicknesses == 0..3

BlanketHeights == {8, 12}

CylinderReactorInit ==
    \E height \in BlanketHeights,
       lower_blanket \in VerticalThicknesses,
       upper_blanket \in VerticalThicknesses,
       upper_vv \in VerticalThicknesses,
       lower_vv \in VerticalThicknesses,
       gap \in {0, 1}, vv \in {1, 2} :
        cylinder_reactor =
            [ inner_blanket_radius |-> 4,
              blanket_thickness |-> 2,
              blanket_height |-> height,
              lower_blanket_thickness |-> lower_blanket,
              upper_blanket_thickness |-> upper_blanket,
              blanket_vv_gap |-> gap,
              upper_vv_thickness |-> upper_vv,
              vv_thickness |-> vv,
              lower_vv_thickness |-> lower_vv,
              rotation_angle |-> 360,
              shapes_and_components |-> << >> ]

cylinder_reactor_create_solids ==
    LET self == cylinder_reactor
    IN  /\ cylinder_reactor' =
               [self EXCEPT !.shapes_and_components =
                    << blanket_shape(self), vac_ves_shape(self),
                       upper_blanket_shape(self), lower_blanket_shape(self),
                       lower_vv_shape(self), upper_vv_shape(self) >>]
        /\ last_call' = Call("create_solids", << >>)
        /\ error' = "none"
        /\ UNCHANGED <<reactor_state, hyperbola, flat_top, pf_coil,
                       iter_divertor, inboard_firstwall, hollow_cube,
                       rotate_shape>>

CylinderReactorNext == cylinder_reactor_create_solids

(***************************************************************************)
(* The objects a specification does not exercise stay as constructed.      *)
(***************************************************************************)
ReactorIdle ==
    /\ ReactorInit
    /\ optional = [n \in OptionalNames |-> None]
    /\ pf = [n \in PfNames |-> NonePf]
    /\ thickness = [n \in ThicknessNames |-> BaseThick]
    /\ elongation = 2
    /\ triangularity = 1

HyperbolaIdle ==
    hyperbola = [ height |-> Length4(2), inner_radius |-> Length4(0),
                  mid_radius |-> Length4(1), outer_radius |-> Length4(2),
                  points |-> None ]

FlatTopIdle ==
    flat_top = [ height |-> Length4(2), arc_height |-> Length4(1),
                 inner_radius |-> Length4(0), mid_radius |-> Length4(1),
                 outer_radius |-> Length4(2), points |-> None ]

PoloidalFieldCoilIdle ==
    pf_coil = [ center_point |-> <<Length4(1), 0>>, height |-> Length4(1),
                width |-> Length4(1), points |-> None ]

ITERtypeDivertorIdle ==
    iter_divertor =
        [ ivt_anchor |-> <<Length20(0), Length20(0)>>,
          ovt_anchor |-> <<Length20(2), Length20(0)>>,
          ivt_coverage |-> 180, ovt_coverage |-> 180,
          ivt_radius |-> Length20(1), ovt_radius |-> Length20(1),
          ivt_length |-> Length20(1), ovt_length |-> Length20(1),
          ivt_tilt |-> 0, ovt_tilt |-> 0,
          dome |-> TRUE, dome_length |-> Length20(2),
          dome_height |-> Length20(1), dome_thickness |-> Length20(1),
          dome_pos |-> 1, casing_points |-> None, points |-> None ]

InboardFirstwallIdle ==
    inboard_firstwall =
        [ central_column_shield |->
              [ kind |-> "CenterColumnShieldCylinder", height |-> Length4(2),
                inner_radius |-> Length4(1), outer_radius |-> Length4(3) ],
          thickness |-> BaseThick,
          rotation_angle |-> 360,
          connection_type |-> "mixed",
          points |-> None,
          cut |-> NoCut,
          firstwall |-> None,
          calls |-> 0 ]

HollowCubeIdle ==
    hollow_cube = [length |-> Length4(2), thickness |-> BaseThick,
                   solid |-> None]

RotateShapeIdle ==
    rotate_shape =
        [ kind |-> "RotateMixedShape", rotation_angle |-> 360,
          section |-> Length4(1), wire |-> None, solid |-> None,
          calls |-> << >>,
          volumes |-> [a \in Angles |-> None] ]

CylinderReactorIdle ==
    cylinder_reactor =
        [ inner_blanket_radius |-> 4, blanket_thickness |-> 2,
          blanket_height |-> 8, lower_blanket_thickness |-> 1,
          upper_blanket_thickness |-> 1, blanket_vv_gap |-> 1,
          upper_vv_thickness |-> 1, vv_thickness |-> 1,
          lower_vv_thickness |-> 1, rotation_angle |-> 360,
          shapes_and_components |-> << >> ]

(***************************************************************************)
(* Spec: a SubmersionTokamak under mutation and create_solids.             *)
(***************************************************************************)
Init ==
    /\ ReactorInit
    /\ HyperbolaIdle
    /\ FlatTopIdle
    /\ PoloidalFieldCoilIdle
    /\ ITERtypeDivertorIdle
    /\ InboardFirstwallIdle
    /\ HollowCubeIdle
    /\ RotateShapeIdle
    /\ CylinderReactorIdle

Next == ReactorNext

Spec == Init /\ [][Next]_vars

(***************************************************************************)
(* SpecFirstPass: create_solids on a SubmersionTokamak constructed with    *)
(* any combination of its optional arguments.                              *)
(***************************************************************************)
ReactorInitAnyOptions ==
    /\ thickness \in { [n \in ThicknessNames |-> t] : t \in Thick \ {0} }
    /\ elongation \in Elongations
    /\ triangularity \in Triangularities
    /\ major_radius = InitMajorRadius(thickness)
    /\ minor_radius = InitMinorRadius(thickness)
    /\ optional \in [OptionalNames -> {None, Some(BaseThick)}]
    /\ number_of_tf_coils \in TfCoilNumbers
    /\ rotation_angle \in RotationAngles
    /\ pf \in [PfNames -> {NonePf, ListPf(<<BaseThick>>)}]
    /\ pf_coil_case_thicknesses = Some(DefaultPfCoilCaseThicknesses)
    /\ divertor_position = "both"
    /\ support_position = "both"
    /\ plasma = NoAttrs
    /\ radial = NoAttrs
    /\ vertical = NoAttrs
    /\ shapes_and_components = << >>
    /\ warnings = 0
    /\ last_call = Call("__init__", << >>)
    /\ error = "none"
    /\ mutations = 0
    /\ builds = 0
    /\ components = NoAttrs
    /\ steps = << >>

InitFirstPass ==
    /\ ReactorInitAnyOptions
    /\ HyperbolaIdle
    /\ FlatTopIdle
    /\ PoloidalFieldCoilIdle
    /\ ITERtypeDivertorIdle
    /\ InboardFirstwallIdle
    /\ HollowCubeIdle
    /\ RotateShapeIdle
    /\ CylinderReactorIdle

SpecFirstPass == InitFirstPass /\ [][create_solids]_vars

(***************************************************************************)
(* SpecHyperbola: a CenterColumnShieldHyperbola under its setters and      *)
(* find_points.                                                            *)
(***************************************************************************)
InitHyperbola ==
    /\ ReactorIdle
    /\ HyperbolaInit
    /\ FlatTopIdle
    /\ PoloidalFieldCoilIdle
    /\ ITERtypeDivertorIdle
    /\ InboardFirstwallIdle
    /\ HollowCubeIdle
    /\ RotateShapeIdle
    /\ CylinderReactorIdle

SpecHyperbola == InitHyperbola /\ [][HyperbolaNext]_vars

(***************************************************************************)
(* SpecFlatTop: a CenterColumnShieldFlatTopCircular under its setters and  *)
(* find_points.                                                            *)
(***************************************************************************)
InitFlatTop ==
    /\ ReactorIdle
    /\ HyperbolaIdle
    /\ FlatTopInit
    /\ PoloidalFieldCoilIdle
    /\ ITERtypeDivertorIdle
    /\ InboardFirstwallIdle
    /\ HollowCubeIdle
    /\ RotateShapeIdle
    /\ CylinderReactorIdle

SpecFlatTop == InitFlatTop /\ [][FlatTopNext]_vars

(***************************************************************************)
(* SpecPoloidalFieldCoil: a PoloidalFieldCoil under its setters and        *)
(* find_points.                                                            *)
(***************************************************************************)
InitPoloidalFieldCoil ==
    /\ ReactorIdle
    /\ HyperbolaIdle
    /\ FlatTopIdle
    /\ PoloidalFieldCoilInit
    /\ ITERtypeDivertorIdle
    /\ InboardFirstwallIdle
    /\ HollowCubeIdle
    /\ RotateShapeIdle
    /\ CylinderReactorIdle

SpecPoloidalFieldCoil ==
    InitPoloidalFieldCoil /\ [][PoloidalFieldCoilNext]_vars

(***************************************************************************)
(* SpecITERtypeDivertor: an ITERtypeDivertor under attribute assignment    *)
(* and find_points.                                                        *)
(***************************************************************************)
InitITERtypeDivertor ==
    /\ ReactorIdle
    /\ HyperbolaIdle
    /\ FlatTopIdle
    /\ PoloidalFieldCoilIdle
    /\ ITERtypeDivertorInit
    /\ InboardFirstwallIdle
    /\ HollowCubeIdle
    /\ RotateShapeIdle
    /\ CylinderReactorIdle

SpecITERtypeDivertor ==
    InitITERtypeDivertor /\ [][ITERtypeDivertorNext]_vars

(***************************************************************************)
(* SpecInboardFirstwall: an InboardFirstwallFCCS under its setters and     *)
(* find_points.                                                            *)
(***************************************************************************)
InitInboardFirstwall ==
    /\ ReactorIdle
    /\ HyperbolaIdle
    /\ FlatTopIdle
    /\ PoloidalFieldCoilIdle
    /\ ITERtypeDivertorIdle
    /\ InboardFirstwallInit
    /\ HollowCubeIdle
    /\ RotateShapeIdle
    /\ CylinderReactorIdle

SpecInboardFirstwall ==
    InitInboardFirstwall /\ [][InboardFirstwallNext]_vars

(***************************************************************************)
(* SpecFirstwallCut: an InboardFirstwallFCCS constructed with a cut of the *)
(* caller's and a thickness of either sign, under find_points.             *)
(***************************************************************************)
\* the thickness values a caller may give, negative ones included
SignedThick == Thick \cup { -t : t \in Thick }

\* shapes a caller cuts from the firstwall
CallerShapes ==
    << [ kind |-> "PoloidalFieldCoil", height |-> Length4(1),
         width |-> Length4(1), center_point |-> <<Length4(1), 0>> ],
       [ kind |-> "CenterColumnShieldCylinder", height |-> Length4(1),
         inner_radius |-> Length4(0), outer_radius |-> Length4(1) ] >>

\* the cut keyword of the constructor: left out, a shape, or a list of shapes
CallerCuts ==
    { NoCut, CutShape(CallerShapes[1]),
      CutList(<<CallerShapes[1], CallerShapes[2]>>) }

InboardFirstwallInitWithCut ==
    \E shield \in FirstwallShields, value \in SignedThick, cut \in CallerCuts :
        inboard_firstwall =
            [ central_column_shield |-> shield,
              thickness |-> value,
              rotation_angle |-> 360,
              connection_type |-> "mixed",
              points |-> None,
              cut |-> cut,
              firstwall |-> None,
              calls |-> 0 ]

InitFirstwallCut ==
    /\ ReactorIdle
    /\ HyperbolaIdle
    /\ FlatTopIdle
    /\ PoloidalFieldCoilIdle
    /\ ITERtypeDivertorIdle
    /\ InboardFirstwallInitWithCut
    /\ HollowCubeIdle
    /\ RotateShapeIdle
    /\ CylinderReactorIdle

FirstwallCutNext ==
    \/ \E value \in SignedThick : inboard_firstwall_thickness_setter(value)
    \/ inboard_firstwall_find_points

SpecFirstwallCut == InitFirstwallCut /\ [][FirstwallCutNext]_vars

(***************************************************************************)
(* SpecHollowCube: a HollowCube under its setters and create_solid.        *)
(***************************************************************************)
InitHollowCube ==
    /\ ReactorIdle
    /\ HyperbolaIdle
    /\ FlatTopIdle
    /\ PoloidalFieldCoilIdle
    /\ ITERtypeDivertorIdle
    /\ InboardFirstwallIdle
    /\ HollowCubeInit
    /\ RotateShapeIdle
    /\ CylinderReactorIdle

SpecHollowCube == InitHollowCube /\ [][HollowCubeNext]_vars

(***************************************************************************)
(* SpecRotateShape: a RotateMixedShape or a RotateCircleShape whose        *)
(* rotation_angle is changed, whose solid is created and whose volume is   *)
(* read, with kernel calls that may fail.                                  *)
(***************************************************************************)
InitRotateShape ==
    /\ ReactorIdle
    /\ HyperbolaIdle
    /\ FlatTopIdle
    /\ PoloidalFieldCoilIdle
    /\ ITERtypeDivertorIdle
    /\ InboardFirstwallIdle
    /\ HollowCubeIdle
    /\ RotateShapeInit
    /\ CylinderReactorIdle

SpecRotateShape == InitRotateShape /\ [][RotateShapeNext]_vars

(***************************************************************************)
(* SpecCylinderReactor: CylinderReactors of several heights and            *)
(* thicknesses whose solids are created.                                   *)
(***************************************************************************)
InitCylinderReactor ==
    /\ ReactorIdle
    /\ HyperbolaIdle
    /\ FlatTopIdle
    /\ PoloidalFieldCoilIdle
    /\ ITERtypeDivertorIdle
    /\ InboardFirstwallIdle
    /\ HollowCubeIdle
    /\ RotateShapeIdle
    /\ CylinderReactorInit

SpecCylinderReactor == InitCylinderReactor /\ [][CylinderReactorNext]_vars

(***************************************************************************)
(* The radial build of SubmersionTokamak.                                  *)
(***************************************************************************)
\* the main radial chain, in build order, with the thickness of each entry
RadialChain ==
    << "inner_bore", "inboard_tf_coils", "center_column_shield",
       "inboard_blanket", "inboard_firstwall", "inner_plasma_gap", "plasma",
       "outer_plasma_gap", "outboard_firstwall", "outboard_blanket",
       "blanket_rear_wall" >>

RadialChainThickness ==
    << "inner_bore_radial_thickness", "inboard_tf_leg_radial_thickness",
       "center_column_shield_radial_thickness",
       "inboard_blanket_radial_thickness", "firstwall_radial_thickness",
       "inner_plasma_gap_radial_thickness", "plasma_radial_thickness",
       "outer_plasma_gap_radial_thickness", "firstwall_radial_thickness",
       "outboard_blanket_radial_thickness",
       "blanket_rear_wall_radial_thickness" >>

StartRadius(component) == radial["_" \o component \o "_start_radius"]

EndRadius(component) == radial["_" \o component \o "_end_radius"]

AfterCreateSolids == last_call.op = "create_solids"

\* C1: once the radial build has run, every component of the main radial
\* chain ends at the radius where the next component of the chain starts.
RadialChainAbuts ==
    radial # NoAttrs =>
        \A i \in 1..(Len(RadialChain) - 1) :
            EndRadius(RadialChain[i]) = StartRadius(RadialChain[i + 1])

\* a build of a chain whose entries all have a thickness, not all the same
RadialChainAbutsWitness ==
    /\ AfterCreateSolids
    /\ \A i \in 1..Len(RadialChainThickness) :
           thickness[RadialChainThickness[i]] > 0
    /\ thickness["outer_plasma_gap_radial_thickness"]
           # thickness["plasma_radial_thickness"]

RECURSIVE CumulativeThickness(_)
CumulativeThickness(i) ==
    IF i = 0 THEN 0
    ELSE CumulativeThickness(i - 1) + thickness[RadialChainThickness[i]]

\* C2: right after create_solids the inner bore starts at radius 0 and every
\* component of the main chain ends at the sum of the thicknesses of the
\* chain up to and including it.
RadialChainIsCursorWalk ==
    AfterCreateSolids =>
        /\ StartRadius("inner_bore") = 0
        /\ \A i \in 1..Len(RadialChain) :
               EndRadius(RadialChain[i]) = CumulativeThickness(i)

\* a build after a thickness of the chain was changed to a value that differs
\* from its neighbours'
RadialChainIsCursorWalkWitness ==
    /\ AfterCreateSolids
    /\ mutations > 0
    /\ thickness["inner_bore_radial_thickness"]
           # thickness["inboard_tf_leg_radial_thickness"]
    /\ EndRadius("blanket_rear_wall") > EndRadius("plasma")

\* the components that receive a radial interval and are not gaps; the
\* outboard TF coil receives one when its three parameters are given
ChainComponents ==
    { "inboard_tf_coils", "center_column_shield", "inboard_blanket",
      "inboard_firstwall", "plasma", "outboard_firstwall",
      "outboard_blanket", "blanket_rear_wall" }
        \cup (IF radial._tf_info_provided THEN {"outboard_tf_coil"} ELSE {})

BandComponents == {"divertor", "support"}

Max(a, b) == IF a >= b THEN a ELSE b

Min(a, b) == IF a <= b THEN a ELSE b

\* the radial intervals of c and d share more than a boundary point
Overlap(c, d) ==
    Max(StartRadius(c), StartRadius(d)) < Min(EndRadius(c), EndRadius(d))

\* C3, as claimed: after the radial build no two non-gap components, the
\* divertor and the supports included, overlap in more than a boundary point.
NoRadialOverlap ==
    AfterCreateSolids =>
        \A c, d \in ChainComponents \cup BandComponents :
            c # d => ~ Overlap(c, d)

\* C3, amended: after the radial build no two components of the main chain,
\* nor the outboard TF coil and one of them, overlap in more than a boundary
\* point.
NoRadialOverlapInChain ==
    AfterCreateSolids =>
        \A c, d \in ChainComponents : c # d => ~ Overlap(c, d)

\* a build with an outboard TF coil in which every component has a thickness
NoRadialOverlapInChainWitness ==
    /\ AfterCreateSolids
    /\ radial._tf_info_provided
    /\ \A c \in ChainComponents : StartRadius(c) < EndRadius(c)
    /\ mutations > 0

\* C4: right after create_solids the plasma's radial extent, major_radius
\* minus and plus minor_radius, is the plasma interval of the radial build.
PlasmaMatchesRadialBuild ==
    AfterCreateSolids =>
        /\ plasma.major_radius - plasma.minor_radius = StartRadius("plasma")
        /\ plasma.major_radius + plasma.minor_radius = EndRadius("plasma")

\* C5: right after create_solids the divertor and the supports each span the
\* band of their own radial thickness centred on the radial coordinate of the
\* plasma high point, whatever the radii of the main chain.
BandsCentredOnHighPoint ==
    AfterCreateSolids =>
        LET x == plasma.high_point[1]
            d == thickness["divertor_radial_thickness"]
            s == thickness["support_radial_thickness"]
        IN  /\ StartRadius("divertor") = x - d \div 2
            /\ EndRadius("divertor") = x + d \div 2
            /\ EndRadius("divertor") - StartRadius("divertor") = d
            /\ StartRadius("support") = x - s \div 2
            /\ EndRadius("support") = x + s \div 2
            /\ EndRadius("support") - StartRadius("support") = s

\* a build in which the two bands differ in width and the chain's plasma
\* interval has moved away from the high point's plasma
BandsCentredOnHighPointWitness ==
    /\ AfterCreateSolids
    /\ thickness["divertor_radial_thickness"] > 0
    /\ thickness["support_radial_thickness"] > 0
    /\ \/ thickness["divertor_radial_thickness"]
              # thickness["support_radial_thickness"]
       \/ StartRadius("plasma") # plasma.major_radius - plasma.minor_radius

(***************************************************************************)
(* The position setters of SubmersionTokamak.                              *)
(***************************************************************************)
\* the step is a call of the setter op with a value that is not acceptable
RejectedAssignment(op) ==
    /\ last_call'.op = op
    /\ last_call'.args[1] \notin acceptable_values

\* C6: the stored divertor and support positions are always acceptable
\* values, and an assignment of any other value raises ValueError and leaves
\* the stored position as it was.
PositionSettersValidate ==
    /\ [](/\ divertor_position \in acceptable_values
          /\ support_position \in acceptable_values)
    /\ [][/\ RejectedAssignment("divertor_position") =>
                 /\ error' = "ValueError"
                 /\ divertor_position' = divertor_position
          /\ RejectedAssignment("support_position") =>
                 /\ error' = "ValueError"
                 /\ support_position' = support_position]_vars

\* a rejected assignment of a divertor position
PositionSettersValidateWitness ==
    /\ last_call.op = "divertor_position"
    /\ last_call.args[1] = "middle"
    /\ error = "ValueError"

(***************************************************************************)
(* CenterColumnShieldHyperbola.find_points and the radius ordering.        *)
(***************************************************************************)
AfterHyperbolaFindPoints == last_call.op = "find_points"

HyperbolaSetters == {"height", "inner_radius", "mid_radius", "outer_radius"}

HyperbolaChecksAtFindPoints ==
    /\ [](/\ last_call.op \in HyperbolaSetters \cup {"__init__"} =>
                 error = "none"
          /\ last_call.op = "inner_radius" =>
                 hyperbola.inner_radius = last_call.args[1]
          /\ last_call.op = "mid_radius" =>
                 hyperbola.mid_radius = last_call.args[1]
          /\ last_call.op = "outer_radius" =>
                 hyperbola.outer_radius = last_call.args[1])
    /\ [][(/\ hyperbola_ordering_violated(hyperbola)
           /\ last_call'.op = "find_points") => error' = "ValueError"]_vars

\* a mid_radius below inner_radius has just been assigned without an error
HyperbolaChecksAtFindPointsWitness ==
    /\ last_call.op = "mid_radius"
    /\ hyperbola.mid_radius < hyperbola.inner_radius
    /\ error = "none"

\* C10: a find_points call of the hyperbola shield that raises leaves the
\* points attribute, and every other attribute, as it was before the call.
HyperbolaFailureKeepsPoints ==
    [][(last_call'.op = "find_points" /\ error' # "none") =>
           /\ hyperbola'.points = hyperbola.points
           /\ hyperbola' = hyperbola]_vars

\* find_points has raised on a shield that holds the points of an earlier,
\* successful call
HyperbolaFailureKeepsPointsWitness ==
    /\ AfterHyperbolaFindPoints
    /\ error = "ValueError"
    /\ hyperbola.points # None

(***************************************************************************)
(* CenterColumnShieldFlatTopCircular.find_points and the radius ordering.  *)
(***************************************************************************)
FlatTopOrdered ==
    /\ flat_top.inner_radius < flat_top.outer_radius
    /\ flat_top.inner_radius <= flat_top.mid_radius
    /\ flat_top.mid_radius <= flat_top.outer_radius

\* C8: find_points of the flat-top circular shield raises whenever
\* inner_radius >= outer_radius or mid_radius is outside
\* [inner_radius, outer_radius], and assigns points only for ordered radii.
FlatTopValidatesOrdering ==
    last_call.op = "find_points" =>
        /\ ~ FlatTopOrdered => error # "none"
        /\ error = "none" => FlatTopOrdered

(***************************************************************************)
(* PoloidalFieldCoil.find_points.                                          *)
(***************************************************************************)
\* C11: right after find_points the coil has exactly four points, upper
\* right, lower right, lower left and upper left in this order, each half the
\* width and half the height away from center_point: an axis-aligned
\* rectangle of width by height centred on center_point.
CoilIsCentredRectangle ==
    last_call.op = "find_points" =>
        LET p == Value(pf_coil.points)
            x == pf_coil.center_point[1]
            z == pf_coil.center_point[2]
        IN  /\ Len(p) = 4
            /\ \A i \in 1..4 : Len(p[i]) = 2
            /\ p[1] = <<x + pf_coil.width \div 2, z + pf_coil.height \div 2>>
            /\ p[2] = <<x + pf_coil.width \div 2, z - pf_coil.height \div 2>>
            /\ p[3] = <<x - pf_coil.width \div 2, z - pf_coil.height \div 2>>
            /\ p[4] = <<x - pf_coil.width \div 2, z + pf_coil.height \div 2>>
            /\ p[1][1] = p[2][1] /\ p[3][1] = p[4][1]
            /\ p[1][2] = p[4][2] /\ p[2][2] = p[3][2]
            /\ p[1][1] - p[4][1] = pf_coil.width
            /\ p[1][2] - p[2][2] = pf_coil.height
            /\ p[1][1] + p[3][1] = 2 * x
            /\ p[1][2] + p[3][2] = 2 * z

\* the points of a coil off the axis whose width and height differ, computed
\* after the coil held the points of other dimensions
CoilIsCentredRectangleWitness ==
    /\ last_call.op = "find_points"
    /\ pf_coil.width > 0
    /\ pf_coil.height > pf_coil.width
    /\ pf_coil.center_point[1] > 0
    /\ pf_coil.center_point[2] < 0

(***************************************************************************)
(* ITERtypeDivertor.find_points.                                           *)
(***************************************************************************)
\* the connections of the points i..j of the divertor profile
DivertorConnections(i, j) ==
    [k \in 1..(j - i + 1) |-> Value(iter_divertor.points)[i + k - 1][3]]

\* C12: right after find_points the divertor profile is the four points of
\* the inner target, then the three points of the dome when dome is True and
\* none when it is False, then the four points of the outer target reversed,
\* then the four casing points: 15 points with a dome, 12 without, each with
\* exactly one connection, straight or circle.
DivertorProfileOrder ==
    last_call.op = "find_points" =>
        LET p == Value(iter_divertor.points)
            d == IF iter_divertor.dome = TRUE THEN 3 ELSE 0
        IN  /\ Len(p) = 4 + d + 4 + 4
            /\ Len(p) = IF iter_divertor.dome = TRUE THEN 15 ELSE 12
            /\ \A i \in 1..Len(p) :
                   Len(p[i]) = 3 /\ p[i][3] \in {"straight", "circle"}
            \* the inner target: its arc, then the anchor and the leg
            /\ DivertorConnections(1, 4)
                   = <<"circle", "circle", "straight", "straight">>
            /\ Coordinates(p[3]) = iter_divertor.ivt_anchor
            \* the dome
            /\ d = 3 => DivertorConnections(5, 7)
                            = <<"circle", "circle", "straight">>
            \* the outer target reversed: the leg, the anchor, then its arc
            /\ DivertorConnections(4 + d + 1, 4 + d + 4)
                   = <<"straight", "circle", "circle", "straight">>
            /\ Coordinates(p[4 + d + 2]) = iter_divertor.ovt_anchor
            \* the casing
            /\ SubSeq(p, 4 + d + 5, 4 + d + 8)
                   = Value(iter_divertor.casing_points)
            /\ \A i \in (4 + d + 5)..(4 + d + 8) : p[i][3] = "straight"

\* the 15 points of a divertor with a dome, a full outer coverage and a
\* tilted outer target
DivertorProfileOrderWitness ==
    /\ last_call.op = "find_points"
    /\ iter_divertor.dome = TRUE
    /\ Len(Value(iter_divertor.points)) = 15
    /\ iter_divertor.ovt_coverage = 360
    /\ iter_divertor.ovt_tilt = 180

(***************************************************************************)
(* InboardFirstwallFCCS.find_points.                                       *)
(***************************************************************************)
\* the radial coordinates of the points of the firstwall
FirstwallRadii ==
    { Value(inboard_firstwall.points)[i][1] :
          i \in 1..Len(Value(inboard_firstwall.points)) }

\* C13: right after a find_points that returned, on a shield of the
\* cylinder, hyperbola, flat-top hyperbola, circular or flat-top circular
\* class, the profile is of the shield's class, with the shield's
\* inner_radius and height, and with outer_radius, and mid_radius where the
\* class has one, increased by exactly thickness.
FirstwallFollowsShield ==
    (last_call.op = "find_points" /\ error = "none") =>
        LET self == inboard_firstwall
            shield == self.central_column_shield
            firstwall == Value(self.firstwall)
        IN  shield.kind # "CenterColumnShieldPlasmaHyperbola" =>
                /\ firstwall.kind = shield.kind
                /\ firstwall.inner_radius = shield.inner_radius
                /\ firstwall.height = shield.height
                /\ firstwall.outer_radius
                       = shield.outer_radius + self.thickness
                /\ shield.kind \in MidRadiusClasses =>
                       firstwall.mid_radius
                           = shield.mid_radius + self.thickness
                /\ FirstwallRadii =
                       {shield.inner_radius,
                        shield.outer_radius + self.thickness}
                           \cup (IF shield.kind \in MidRadiusClasses
                                   THEN {shield.mid_radius + self.thickness}
                                   ELSE {})

\* the profile of a firstwall with a thickness on a shield that has a
\* mid_radius
FirstwallFollowsShieldWitness ==
    /\ last_call.op = "find_points"
    /\ error = "none"
    /\ inboard_firstwall.thickness > 0
    /\ inboard_firstwall.central_column_shield.kind
           = "CenterColumnShieldFlatTopCircular"
    /\ inboard_firstwall.central_column_shield.mid_radius
           + inboard_firstwall.thickness \in FirstwallRadii

\* C14: find_points on a central_column_shield that is not of one of the six
\* center column shield classes raises ValueError and leaves points,
\* connection_type and cut as they were.
FirstwallRejectsOtherClasses ==
    [][(/\ last_call'.op = "find_points"
        /\ inboard_firstwall.central_column_shield.kind
               \notin acceptable_classes)
       => /\ error' = "ValueError"
          /\ inboard_firstwall'.points = inboard_firstwall.points
          /\ inboard_firstwall'.connection_type
                 = inboard_firstwall.connection_type
          /\ inboard_firstwall'.cut = inboard_firstwall.cut]_vars

\* find_points has raised on a shape that is no shield, on a firstwall that
\* holds the points and the cut of an earlier call
FirstwallRejectsOtherClassesWitness ==
    /\ last_call.op = "find_points"
    /\ error = "ValueError"
    /\ inboard_firstwall.central_column_shield.kind \notin acceptable_classes
    /\ inboard_firstwall.points # None
    /\ inboard_firstwall.cut # NoCut

\* C15: a find_points call that directly follows a find_points call that
\* returned, no parameter assigned in between, leaves points, connection_type
\* and cut as the first call left them.
FirstwallFindPointsIdempotent ==
    [][(/\ last_call.op = "find_points"
        /\ error = "none"
        /\ last_call'.op = "find_points")
       => /\ inboard_firstwall'.points = inboard_firstwall.points
          /\ inboard_firstwall'.connection_type
                 = inboard_firstwall.connection_type
          /\ inboard_firstwall'.cut = inboard_firstwall.cut]_vars

(***************************************************************************)
(* The order of create_solids.                                             *)
(***************************************************************************)
RECURSIVE EventsOf(_)
EventsOf(calls) ==
    IF calls = << >> THEN << >>
    ELSE Head(calls).events \o EventsOf(Tail(calls))

\* what the last create_solids did, in order
Events == EventsOf(steps)

\* the position of the step of a name among the steps
StepOf(name) == CHOOSE i \in 1..Len(steps) : steps[i].name = name

\* the step i constructs a shape that is not in the set exempt
Constructs(i, exempt) ==
    \E k \in 1..Len(steps[i].events) :
        /\ steps[i].events[k].event = "construct"
        /\ steps[i].events[k].shape \notin exempt

\* C16, as claimed: in create_solids the radial and the vertical build have
\* both run before any component of the reactor is constructed.
BuildsBeforeAnyComponent ==
    AfterCreateSolids =>
        \A i \in 1..Len(steps) :
            Constructs(i, {}) =>
                /\ StepOf("_make_radial_build") < i
                /\ StepOf("_make_vertical_build") < i

\* C16, amended: in create_solids the radial and the vertical build have both
\* run before any component other than the plasma is constructed; the plasma
\* is constructed before the radial build.
BuildsBeforeOtherComponents ==
    AfterCreateSolids =>
        /\ \A i \in 1..Len(steps) :
               Constructs(i, {"_plasma"}) =>
                   /\ StepOf("_make_radial_build") < i
                   /\ StepOf("_make_vertical_build") < i
        /\ StepOf("_make_plasma") < StepOf("_make_radial_build")
        /\ StepOf("_make_radial_build") < StepOf("_make_vertical_build")

\* a build that made the outboard TF coil and the PF coils
BuildsBeforeOtherComponentsWitness ==
    /\ AfterCreateSolids
    /\ \E i \in 1..Len(shapes_and_components) :
           shapes_and_components[i] = "tf_coil"
    /\ shapes_and_components[1] = "pf_coil"
    /\ \A i \in 1..Len(steps) : i >= 5 => Constructs(i, {"_plasma"}) \/ i = 13

\* C17: in create_solids the supports are cut from the blanket's solid, and
\* only after the blanket was constructed in union with the inboard blanket;
\* the divertor is registered as the cut of the firstwall, and only after the
\* firstwall was constructed in union with the inboard firstwall.
CutsFollowUnions ==
    AfterCreateSolids =>
        /\ \E k \in 1..Len(Events) :
               /\ Events[k] = SolidCut("_blanket", "_supports")
        /\ \E k \in 1..Len(Events) :
               /\ Events[k] = SetCut("_firstwall", "_divertor")
        /\ \A k \in 1..Len(Events) :
               Events[k] = SolidCut("_blanket", "_supports") =>
                   \E j \in 1..(k - 1) :
                       /\ Events[j].event = "construct"
                       /\ Events[j].shape = "_blanket"
                       /\ "_inboard_blanket" \in Events[j].union
        /\ \A k \in 1..Len(Events) :
               Events[k] = SetCut("_firstwall", "_divertor") =>
                   \E j \in 1..(k - 1) :
                       /\ Events[j].event = "construct"
                       /\ Events[j].shape = "_firstwall"
                       /\ "_inboard_firstwall" \in Events[j].union

\* a second build, after the position of the supports was changed
CutsFollowUnionsWitness ==
    /\ AfterCreateSolids
    /\ builds = 2
    /\ support_position = "upper"
    /\ Len(Events) > 20

\* the build values and components assigned by the steps before step i
AssignedBefore(i) == UNION { steps[j].assigns : j \in 1..(i - 1) }

\* C18: on the first create_solids of a reactor, whatever the combination of
\* its optional parameters, every step reads only build values and sibling
\* components that an earlier step of this pass has assigned, and the build
\* values the pass leaves are those its steps assigned.
StaticDependencyOrder ==
    (AfterCreateSolids /\ builds = 1) =>
        /\ \A i \in 1..Len(steps) : steps[i].reads \subseteq AssignedBefore(i)
        /\ DOMAIN radial \cup DOMAIN vertical
               \subseteq AssignedBefore(Len(steps) + 1)

\* a first pass with the outboard TF parameters given, more than one TF coil
\* and only some of the PF parameters
StaticDependencyOrderWitness ==
    /\ AfterCreateSolids
    /\ builds = 1
    /\ \A n \in OptionalNames : optional[n] # None
    /\ number_of_tf_coils > 1
    /\ "_outboard_tf_coils_vertical_height" \in steps[11].reads
    /\ pf["pf_coil_radial_position"] = NonePf
    /\ pf["pf_coil_vertical_position"] # NonePf

\* the positions of the events of the calls: the step and the place in it
EventPositions(calls) ==
    UNION { { <<i, k>> : k \in 1..Len(calls[i].events) } :
                i \in 1..Len(calls) }

\* the positions of the warnings among the events of the calls
WarningEvents(calls) ==
    { p \in EventPositions(calls) : calls[p[1]].events[p[2]].event = "warn" }

\* the event at position p happens before the event at position q
Precedes(p, q) == p[1] < q[1] \/ (p[1] = q[1] /\ p[2] < q[2])

HeightsOf(component) ==
    { components[component].points[i][2] :
          i \in 1..Len(components[component].points) }

\* the heights a band of the given position spans, H being the end height of
\* the blanket rear wall
BandHeights(position, H) ==
    CASE position = "both" -> {-H, H}
      [] position = "upper" -> {0, H}
      [] position = "lower" -> {-H, 0}

\* C20: right after create_solids the divertor and the supports each span
\* the heights their position parameter asks for: -H to H for both, 0 to H
\* for upper and -H to 0 for lower, H being the end height of the blanket
\* rear wall in the vertical build.
BandsFollowPosition ==
    AfterCreateSolids =>
        LET H == vertical._blanket_rear_wall_end_height
        IN  /\ HeightsOf("_divertor") = BandHeights(divertor_position, H)
            /\ HeightsOf("_supports") = BandHeights(support_position, H)
            /\ Len(components._divertor.points) = 4
            /\ Len(components._supports.points) = 4

\* a build of a reactor whose divertor is in the lower position, the supports
\* in both
BandsFollowPositionWitness ==
    /\ AfterCreateSolids
    /\ divertor_position = "lower"
    /\ support_position = "both"
    /\ vertical._blanket_rear_wall_end_height > 0
    /\ HeightsOf("_divertor") # HeightsOf("_supports")

(***************************************************************************)
(* The vertical build of SubmersionTokamak.                                *)
(***************************************************************************)
\* the vertical chain above the plasma, in build order, with the thickness
\* attribute of each entry
VerticalChain ==
    << "plasma_to_divertor_gap", "firstwall", "blanket", "blanket_rear_wall" >>

VerticalChainThickness ==
    << "outer_plasma_gap_radial_thickness", "firstwall_radial_thickness",
       "outboard_blanket_radial_thickness",
       "blanket_rear_wall_radial_thickness" >>

StartHeight(component) == vertical["_" \o component \o "_start_height"]

EndHeight(component) == vertical["_" \o component \o "_end_height"]

\* C23: right after create_solids the plasma spans the heights 0 to the
\* height of the plasma's high point, and the plasma-to-divertor gap, the
\* firstwall, the blanket and the blanket rear wall each start at the end
\* height of the entry before and end at start plus their thickness.
VerticalChainAbuts ==
    AfterCreateSolids =>
        /\ StartHeight("plasma") = 0
        /\ EndHeight("plasma") = plasma.high_point[2]
        /\ StartHeight(VerticalChain[1]) = EndHeight("plasma")
        /\ \A i \in 2..Len(VerticalChain) :
               StartHeight(VerticalChain[i]) = EndHeight(VerticalChain[i - 1])
        /\ \A i \in 1..Len(VerticalChain) :
               EndHeight(VerticalChain[i])
                   = StartHeight(VerticalChain[i])
                         + thickness[VerticalChainThickness[i]]

\* a build after the gap above the plasma was given a thickness that differs
\* from the firstwall's, every entry having a height
VerticalChainAbutsWitness ==
    /\ AfterCreateSolids
    /\ mutations > 0
    /\ plasma.high_point[2] > 0
    /\ \A i \in 1..Len(VerticalChainThickness) :
           thickness[VerticalChainThickness[i]] > 0
    /\ thickness["outer_plasma_gap_radial_thickness"]
           # thickness["firstwall_radial_thickness"]

(***************************************************************************)
(* The vertical targets in the profile of ITERtypeDivertor.                *)
(***************************************************************************)
\* what the target generator returns for the inner and for the outer target:
\* the full-coverage arc point, the half-coverage arc point, the anchor and
\* the leg end
InnerTargetGenerated ==
    _create_vertical_target_points(
        iter_divertor.ivt_anchor, radians(iter_divertor.ivt_coverage),
        radians(iter_divertor.ivt_tilt), -iter_divertor.ivt_radius,
        iter_divertor.ivt_length)

OuterTargetGenerated ==
    _create_vertical_target_points(
        iter_divertor.ovt_anchor, -radians(iter_divertor.ovt_coverage),
        radians(iter_divertor.ovt_tilt), iter_divertor.ovt_radius,
        iter_divertor.ovt_length)

\* the connections find_points gives the points of the outer target, in the
\* order of the generator
OuterTargetConnections == <<"straight", "circle", "circle", "straight">>

\* where the outer target starts in the profile: after the inner target and
\* the dome
OuterTargetOffset == 4 + (IF iter_divertor.dome = TRUE THEN 3 ELSE 0)

\* C24: right after find_points the four points of the outer target are in
\* the profile in the reverse of the generator's order (leg end, anchor,
\* half-coverage arc point, full-coverage arc point), each with the
\* connection it was given before the reversal (straight, circle, circle,
\* straight in the final order); the inner target is in the generator's order
\* with the connections circle, circle, straight, straight.
OuterTargetReversed ==
    last_call.op = "find_points" =>
        LET p == Value(iter_divertor.points)
        IN  /\ \A k \in 1..4 :
                   /\ Coordinates(p[OuterTargetOffset + k])
                          = OuterTargetGenerated[5 - k]
                   /\ p[OuterTargetOffset + k][3]
                          = OuterTargetConnections[5 - k]
            /\ Coordinates(p[OuterTargetOffset + 1])
                   = rotate(iter_divertor.ovt_anchor,
                            << iter_divertor.ovt_anchor[1],
                               iter_divertor.ovt_anchor[2]
                                   - iter_divertor.ovt_length >>,
                            radians(iter_divertor.ovt_tilt))
            /\ Coordinates(p[OuterTargetOffset + 2])
                   = iter_divertor.ovt_anchor
            /\ [k \in 1..4 |-> p[OuterTargetOffset + k][3]]
                   = <<"straight", "circle", "circle", "straight">>
            /\ \A k \in 1..4 :
                   Coordinates(p[k]) = InnerTargetGenerated[k]
            /\ [k \in 1..4 |-> p[k][3]]
                   = <<"circle", "circle", "straight", "straight">>

\* a profile with a dome whose outer target has four different points, so
\* that the reversal shows
OuterTargetReversedWitness ==
    /\ last_call.op = "find_points"
    /\ iter_divertor.dome = TRUE
    /\ Cardinality({ OuterTargetGenerated[k] : k \in 1..4 }) = 4
    /\ Coordinates(Value(iter_divertor.points)[8]) = OuterTargetGenerated[4]
    /\ Coordinates(Value(iter_divertor.points)[11]) = OuterTargetGenerated[1]

(***************************************************************************)
(* The components create_solids collects.                                  *)
(***************************************************************************)
\* the components every create_solids makes, in order, by name
EightComponents ==
    << "plasma", "center_column_shield", "outboard_firstwall", "blanket",
       "divertor", "supports", "outboard_rear_blanket_wall",
       "inboard_tf_coils" >>

PfComponents == {"pf_coil", "pf_coil_case"}

OutboardTfAsked ==
    /\ \A n \in OptionalNames : optional[n] # None
    /\ number_of_tf_coils > 1

PfAsked == \A n \in PfNames : pf[n] # NonePf

\* the number of PF coil components at the head of shapes_and_components
PfPrefix ==
    Cardinality({ i \in 1..Len(shapes_and_components) :
                      shapes_and_components[i] \in PfComponents })

\* C25: right after create_solids, shapes_and_components holds the plasma,
\* the center column shield, the firstwall, the blanket, the divertor, the
\* supports, the blanket rear wall and the inboard TF coils in that order;
\* the outboard TF coil follows them exactly when the three outboard TF
\* parameters are given and number_of_tf_coils > 1; PF coil components come
\* in front of them exactly when the four PF parameters are given.
ComponentsProduced ==
    AfterCreateSolids =>
        LET s == shapes_and_components
            n == PfPrefix
        IN  /\ \A i \in 1..n : s[i] \in PfComponents
            /\ n > 0 <=> PfAsked
            /\ n > 0 => s[1] = "pf_coil"
            /\ Len(s) >= n + 8
            /\ SubSeq(s, n + 1, n + 8) = EightComponents
            /\ IF OutboardTfAsked
                 THEN Len(s) = n + 9 /\ s[n + 9] = "tf_coil"
                 ELSE Len(s) = n + 8

\* a build with PF coils, their casing and an outboard TF coil: 11 components
ComponentsProducedWitness ==
    /\ AfterCreateSolids
    /\ PfAsked
    /\ OutboardTfAsked
    /\ Len(shapes_and_components) = 11
    /\ shapes_and_components[11] = "tf_coil"
    /\ shapes_and_components[2] = "pf_coil_case"

(***************************************************************************)
(* The loop that closes create_solids.                                     *)
(***************************************************************************)
\* the cuts of the loop of the last create_solids, in order
FinalLoopCuts == steps[Len(steps)].events

\* the components of shapes_and_components that are PF coil components, and
\* those that are not
PfShapes ==
    { shapes_and_components[i] : i \in 1..Len(shapes_and_components) }
        \cap PfComponents

NonPfShapes ==
    { shapes_and_components[i] : i \in 1..Len(shapes_and_components) }
        \ PfComponents

\* C26: right after a create_solids that made PF coils, the solid of every
\* component that is not a PF coil component has been cut by the solid of
\* every PF coil component, and no PF coil component has been cut; right
\* after a create_solids that made no PF coils, the loop has cut nothing.
PfCoilsCutFromOthers ==
    AfterCreateSolids =>
        /\ steps[Len(steps)].name = "create_solids"
        /\ "shapes_and_components" \in steps[Len(steps)].assigns
        /\ \A k \in 1..Len(FinalLoopCuts) :
               /\ FinalLoopCuts[k].event = "solid_cut"
               /\ FinalLoopCuts[k].shape
                      \notin { AttributeOf(p) : p \in PfComponents }
        /\ IF PfAsked
             THEN /\ PfShapes # {}
                  /\ \A c \in NonPfShapes : \A p \in PfShapes :
                         \E k \in 1..Len(FinalLoopCuts) :
                             FinalLoopCuts[k]
                                 = SolidCut(AttributeOf(c), AttributeOf(p))
             ELSE /\ PfShapes = {}
                  /\ FinalLoopCuts = << >>

\* a build with the PF coils and their casing, both cut from each of nine
\* other components
PfCoilsCutFromOthersWitness ==
    /\ AfterCreateSolids
    /\ PfShapes = PfComponents
    /\ Cardinality(NonPfShapes) = 9
    /\ Len(FinalLoopCuts) = 18

(***************************************************************************)
(* The cut attribute of InboardFirstwallFCCS.                              *)
(***************************************************************************)
\* the shapes of a cut attribute, in order
CutItems(cut) ==
    CASE cut.kind = "None" -> << >>
      [] cut.kind = "shape" -> <<cut.shape>>
      [] cut.kind = "list" -> cut.items

FindPointsSucceeds == last_call'.op = "find_points" /\ error' = "none"

\* C27: a find_points call that succeeds leaves the central column shield
\* among the shapes of cut, after the shapes that cut held before the call,
\* which are all kept in their order.
CutKeepsCallerShapes ==
    [][FindPointsSucceeds =>
           LET before == CutItems(inboard_firstwall.cut)
               after == CutItems(inboard_firstwall'.cut)
           IN  /\ Len(after) > Len(before)
               /\ SubSeq(after, 1, Len(before)) = before
               /\ \E k \in (Len(before) + 1)..Len(after) :
                      after[k] = inboard_firstwall.central_column_shield]_vars

\* a firstwall constructed with a list of two shapes as cut, after one
\* find_points: the two shapes, then the shield
CutKeepsCallerShapesWitness ==
    /\ last_call.op = "find_points"
    /\ error = "none"
    /\ inboard_firstwall.calls = 1
    /\ inboard_firstwall.cut
           = CutList(<< CallerShapes[1], CallerShapes[2],
                        inboard_firstwall.central_column_shield >>)

\* a find_points call that gets past the class check and fails in the
\* profile of the derived shape
DerivedProfileFails ==
    /\ last_call'.op = "find_points"
    /\ error' # "none"
    /\ inboard_firstwall.central_column_shield.kind \in acceptable_classes

\* C28: a find_points call that fails while the profile of the derived shape
\* is generated ends with that error and leaves points and cut as they were
\* before the call.
FailedDerivationKeepsPointsAndCut ==
    [][DerivedProfileFails =>
           /\ error' = shape_points(derived_firstwall(inboard_firstwall)).error
           /\ inboard_firstwall'.points = inboard_firstwall.points
           /\ inboard_firstwall'.cut = inboard_firstwall.cut]_vars

\* a hyperbola shield with ordered radii whose firstwall, after a call that
\* succeeded, was given a negative thickness that takes mid_radius below
\* inner_radius: the second call fails and points and cut are those of the
\* first
FailedDerivationKeepsPointsAndCutWitness ==
    /\ last_call.op = "find_points"
    /\ error = "ValueError"
    /\ inboard_firstwall.central_column_shield.kind
           = "CenterColumnShieldHyperbola"
    /\ inboard_firstwall.central_column_shield.mid_radius
           >= inboard_firstwall.central_column_shield.inner_radius
    /\ inboard_firstwall.thickness < 0
    /\ inboard_firstwall.calls = 2
    /\ inboard_firstwall.points # None
    /\ inboard_firstwall.cut # NoCut

(***************************************************************************)
(* The wall of HollowCube.                                                 *)
(***************************************************************************)
Axes == {"x", "y", "z"}

\* C21: right after create_solid the inner box of the hollow cube measures
\* length in each direction, and on each of the six sides the inner face and
\* the outer face are the thickness apart.
HollowCubeWallIsThickness ==
    last_call.op = "create_solid" =>
        LET solid == Value(hollow_cube.solid)
        IN  \A a \in Axes :
                /\ solid.inner[a][2] - solid.inner[a][1] = hollow_cube.length
                /\ solid.inner[a][1] - solid.outer[a][1]
                       = hollow_cube.thickness
                /\ solid.outer[a][2] - solid.inner[a][2]
                       = hollow_cube.thickness

CreateSolidAssignsLast ==
    [][last_call'.op = "create_solid" =>
           LET calls == rotate_shape'.calls
           IN  /\ \E n \in 1..Len(CreateSolidSteps) :
                      calls = SubSeq(CreateSolidSteps, 1, n)
               /\ IF error' = "none"
                    THEN /\ calls = CreateSolidSteps
                         /\ rotate_shape'.solid # None
                         /\ Value(rotate_shape'.solid).angle
                                = rotate_shape.rotation_angle
                    ELSE /\ calls[Len(calls)] \in KernelCalls
                         /\ rotate_shape'.solid = rotate_shape.solid]_vars

\* a create_solid that fails in perform_boolean_operations on a shape that
\* holds the solid of an earlier call made at another rotation angle
CreateSolidAssignsLastWitness ==
    /\ last_call.op = "create_solid"
    /\ error # "none"
    /\ rotate_shape.calls[Len(rotate_shape.calls)]
           = "perform_boolean_operations"
    /\ rotate_shape.solid # None
    /\ Value(rotate_shape.solid).angle # rotate_shape.rotation_angle

(***************************************************************************)
(* The layers of the CylinderReactor.                                      *)
(***************************************************************************)
\* the shape of the name among the shapes of the reactor
CylinderShape(name) ==
    CHOOSE s \in { cylinder_reactor.shapes_and_components[i] :
                       i \in DOMAIN cylinder_reactor.shapes_and_components } :
        s.name = name

\* the span of a shape along z and along r, as <<lowest, highest>>
ZSpan(name) ==
    << SetMin(ZCoordinates(CylinderShape(name))),
       SetMax(ZCoordinates(CylinderShape(name))) >>

RSpan(name) ==
    << SetMin(RCoordinates(CylinderShape(name))),
       SetMax(RCoordinates(CylinderShape(name))) >>

\* C30: once the solids are created the layers stack without gap or overlap:
\* the upper vacuum vessel spans [h/2, h/2 + upper_vv_thickness] and the upper
\* blanket starts where it ends, the lower blanket spans
\* [-h/2 - lower_blanket_thickness, -h/2] and the lower vacuum vessel starts
\* where it ends, and the outer vacuum vessel spans [inner_wall, inner_wall +
\* vv_thickness] radially and reaches exactly from the bottom of the lower
\* vacuum vessel to the top of the upper blanket.
LayersStack ==
    cylinder_reactor.shapes_and_components # << >> =>
        LET self == cylinder_reactor
            half == HalfOf(self.blanket_height)
        IN  /\ ZSpan("upper vacuum vessel")
                   = <<half, FloatAdd(half, self.upper_vv_thickness)>>
            /\ ZSpan("upper blanket")[1] = ZSpan("upper vacuum vessel")[2]
            /\ ZSpan("lower blanket")
                   = <<FloatSub(-half, self.lower_blanket_thickness), -half>>
            /\ ZSpan("lower vacuum vessel")[2] = ZSpan("lower blanket")[1]
            /\ RSpan("vacuum vessel")
                   = <<inner_wall(self),
                       FloatAdd(inner_wall(self), self.vv_thickness)>>
            /\ ZSpan("vacuum vessel")
                   = <<ZSpan("lower vacuum vessel")[1],
                       ZSpan("upper blanket")[2]>>
====
